---- MODULE Spec2Model ----
(***************************************************************************)
(* Model of the Baytech console driver of pductl (src/baytech/pdu.go):     *)
(* one console session shared by concurrent callers, the command lock mu,  *)
(* the login lock muLogin, communicate's read loop, the execute and Login  *)
(* callbacks, WithLogin, Logout and Close; and of the two wrappers around  *)
(* a PDU: Cached (the TTL cache) and PolledPDU (the background poller).    *)
(*                                                                         *)
(* Console text is a sequence of tokens: every prompt, the line terminator *)
(* and every output line is one token, the text of the Logout command is   *)
(* two tokens so that its echo can be split across reads.                  *)
(***************************************************************************)
EXTENDS Integers, Sequences, FiniteSets, TLC

\* ------------------------------------------------------------------ bounds
\* Consecutive read timeouts the transport may produce before it has to
\* deliver data (if any is pending).
MaxTimeouts == 2
\* Transport failures (a failing Read or Write) injected in one behaviour.
MaxFaults == 1
\* Longest accumulated input a callback is followed to.
MaxStr == 9
\* The longest TTL a cache is configured with (in clock units).
MaxTTL == 2
\* Clock units that pass in one behaviour of the cache.
MaxElapsed == 4
\* Changes of the device's outlet state in one behaviour.
MaxVer == 2
\* Timer ticks of the poller that are counted after a failed fetch.
MaxTicks == 1
\* The longest outlet id string (in characters) given to an outlet operation.
MaxIdLen == 3
\* The longest gap, in hours, between two snapshots given to CalcEnergy.
MaxHours == 2

\* --------------------------------------------------------------- constants
Threads == {"t1", "t2"}
Users == {"a", "b"}
NoOne == "-"

promptReady == <<"MMP-14>">>
promptPassword == <<"Enter Password: ">>
promptUsername == <<"Enter user name: ">>
promptInvalidPassword == <<"Invalid user/password!">>
CRLF == <<"\r\n">>

\* Command texts (the argument of execute after Sprintf).
CmdLogout == <<"Log", "out">>
CmdWhoami == <<"Whoami">>
CmdTemp == <<"Temp">>
CmdStatus == <<"Status">>
CmdOstatus == <<"Ostatus">>
CmdOn == <<"On 1">>
Blank == <<>>

\* The credentials the device accepts, and a password it rejects.
Password == ("a" :> <<"pw-a">>) @@ ("b" :> <<"pw-b">>)
WrongPassword == <<"pw-wrong">>

\* The line the device prints for Whoami, matched by reWhoami.
WhoamiLine == ("a" :> "Current User: a") @@ ("b" :> "Current User: b")
TempLine == "Int. Temp: 75.0 F"

\* The report the device prints for Status and for Ostatus, each as one
\* token. rep: the report is complete ("ok"), or the Status report has no
\* group rows, or the Ostatus report has no outlet rows. sw: outlet 1 is on.
StatusText(d) ==
    IF d.rep = "no groups" THEN "Status report without group rows"
    ELSE "Status report"
OstatusText(d) ==
    IF d.rep = "no outlets" THEN "Ostatus report without outlet rows"
    ELSE IF d.sw THEN "Ostatus report: outlet 1 On"
    ELSE "Ostatus report: outlet 1 Off"

\* ------------------------------------------------------------ text helpers
HasSuffix(s, suf) ==
    /\ Len(s) >= Len(suf)
    /\ SubSeq(s, Len(s) - Len(suf) + 1, Len(s)) = suf

HasPrefix(s, pre) ==
    /\ Len(s) >= Len(pre)
    /\ SubSeq(s, 1, Len(pre)) = pre

TrimPrefix(s, pre) ==
    IF HasPrefix(s, pre) THEN SubSeq(s, Len(pre) + 1, Len(s)) ELSE s

TrimSuffix(s, suf) ==
    IF HasSuffix(s, suf) THEN SubSeq(s, 1, Len(s) - Len(suf)) ELSE s

IsSpace(tok) == tok = "\r\n"

RECURSIVE TrimLeft(_)
TrimLeft(s) ==
    IF s # <<>> /\ IsSpace(Head(s)) THEN TrimLeft(Tail(s)) ELSE s

RECURSIVE TrimRight(_)
TrimRight(s) ==
    IF s # <<>> /\ IsSpace(s[Len(s)])
    THEN TrimRight(SubSeq(s, 1, Len(s) - 1))
    ELSE s

TrimSpace(s) == TrimRight(TrimLeft(s))

\* reWhoami.FindStringSubmatch: the user of the first "Current User:" line,
\* NoOne when there is no match.
RECURSIVE FindWhoami(_)
FindWhoami(s) ==
    IF s = <<>> THEN NoOne
    ELSE IF \E u \in Users : WhoamiLine[u] = Head(s)
         THEN CHOOSE u \in Users : WhoamiLine[u] = Head(s)
         ELSE FindWhoami(Tail(s))

\* reTemperature.FindStringSubmatch(out) != nil: the text has a line
\* "Int. Temp: <number> F".
FindTemp(s) == \E i \in 1..Len(s) : s[i] = TempLine

\* ------------------------------------------------------------------- state
VARIABLES
    th,         \* per caller: its call, its position and the locals of the call
    mu,         \* PDU.mu: the holder of the command lock, or NoOne
    muLogin,    \* PDU.muLogin: the holder of the login lock, or NoOne
    dev,        \* the device at the far end of the transport
    rx,         \* console text the device has sent and no Read has returned yet
    connClosed, \* PDU.conn has been closed
    transport,  \* "reliable": a Read returns pending text and times out only
                \* when none is pending; "flaky": a Read may also time out
                \* before pending text arrives, and Reads and Writes may fail
    timeouts,   \* read timeouts since the last delivered data
    faults      \* transport failures injected so far

\* The wrappers around a PDU (Cached, PolledPDU) and the PDU they wrap.
VARIABLES
    devVer,     \* the wrapped PDU: the version of the device's outlet state
    clock,      \* time.Now()
    cached,     \* the Cached struct: TTL, LastUpdate, LastUpdateDetailed, LastStatus
    call,       \* the last Cached.Status call: its argument, what it did and returned
    fetchedAt,  \* per kind of Status call: when the cache last fetched for that kind
    pp,         \* the PolledPDU struct: lastStatus, stop, trigger, the ticker
    lp,         \* PolledPDU.loop: its position and what its fetches did
    cl,         \* the callers of the PolledPDU: a reader, a mutator and Close
    fn          \* a call of a function of the package: its arguments and result

driverVars == <<th, mu, muLogin, dev, rx, connClosed, transport, timeouts, faults>>
cacheVars == <<clock, cached, call, fetchedAt>>
pollerVars == <<pp, lp, cl>>
wrapperVars == <<devVer, cacheVars, pollerVars, fn>>
vars == <<driverVars, wrapperVars>>

\* Call sites of communicate: the place of the caller inside Login,
\* WithLogin, Logout, Close or a device operation.
Sites == {"whoami1", "relogout", "handshake", "whoami2", "body",
          "wl_logout", "logout", "op", "close_logout",
          "status", "ostatus", "switch"}

\* Errors: "nil", the transport's errors and the driver's sentinels.
ErrNil == "nil"
ErrDeadlineExceeded == "os.ErrDeadlineExceeded"
ErrTransport == "transport error"
ErrLoginRequired == "login required"
ErrInvalidPassword == "invalid password"
ErrNoUserName == "failed to find user name"
ErrSetReadDeadline == "failed to set read deadline"
ErrNoTemp == "failed to find temp"

\* ------------------------------------------------------------------ device
\* The device answers one written line at a time. On the login screen it
\* asks for a user name, then for a password; with valid credentials it shows
\* the ready prompt, otherwise the invalid-credentials marker and the user
\* name prompt again. At the ready prompt it echoes the line, prints the
\* command's output and the ready prompt; after Logout it prints no prompt.
LoginScreen(d) == [d EXCEPT !.stage = "user", !.user = NoOne, !.typed = NoOne]

DeviceRespond(d, line) ==
    IF d.stage = "ready" THEN
        IF line = Blank THEN
            [dev |-> d, out |-> CRLF \o promptReady]
        ELSE IF line = CmdLogout THEN
            [dev |-> LoginScreen(d),
             out |-> IF d.fw = "crlf"
                     THEN line \o CRLF \o CRLF \o promptUsername
                     ELSE line]
        ELSE IF line = CmdWhoami THEN
            [dev |-> d,
             out |-> line \o CRLF \o <<WhoamiLine[d.user]>> \o CRLF \o promptReady]
        ELSE IF line = CmdTemp THEN
            [dev |-> d,
             out |-> line \o CRLF \o <<TempLine>> \o CRLF \o promptReady]
        ELSE IF line = CmdStatus THEN
            [dev |-> d,
             out |-> line \o CRLF \o <<StatusText(d)>> \o CRLF \o promptReady]
        ELSE IF line = CmdOstatus THEN
            [dev |-> d,
             out |-> line \o CRLF \o <<OstatusText(d)>> \o CRLF \o promptReady]
        ELSE IF line = CmdOn THEN
            [dev |-> [d EXCEPT !.sw = TRUE],
             out |-> line \o CRLF \o promptReady]
        ELSE
            [dev |-> d, out |-> line \o CRLF \o promptReady]
    ELSE IF d.stage = "user" THEN
        IF line = Blank THEN
            [dev |-> d, out |-> CRLF \o promptUsername]
        ELSE
            [dev |-> [d EXCEPT !.stage = "pass",
                               !.typed = IF \E u \in Users : line = <<u>>
                                         THEN line[1] ELSE NoOne],
             out |-> CRLF \o promptPassword]
    ELSE \* d.stage = "pass"
        IF d.typed \in Users /\ line = Password[d.typed] THEN
            [dev |-> [d EXCEPT !.stage = "ready", !.user = d.typed,
                               !.typed = NoOne],
             out |-> CRLF \o promptReady]
        ELSE
            [dev |-> LoginScreen(d),
             out |-> CRLF \o promptInvalidPassword \o CRLF \o promptUsername]

\* p.send reaching the device: the device answers the line at once, and its
\* answer waits in rx until a Read returns it.
Send(d, r, line) ==
    LET a == DeviceRespond(d, line)
    IN  [dev |-> a.dev, rx |-> r \o a.out]

\* ----------------------------------------------------------------- callers
NewCaller(entry, username, password) ==
    [entry |-> entry, username |-> username, password |-> password,
     site |-> "idle", ph |-> "none",
     cmd |-> <<>>, str |-> <<>>, sent |-> FALSE,
     sentUsername |-> FALSE, sentPassword |-> FALSE,
     wrote |-> <<>>, res |-> <<>>, err |-> ErrNil, wrap |-> "",
     user |-> NoOne, authAtQuery |-> NoOne, hist |-> <<>>, seen |-> <<>>]

\* The caller is about to call communicate at `site` (from execute(cmd), or
\* from Login's handshake when cmd is empty): the callback's locals are fresh.
StartCall(s, site, cmd) ==
    [s EXCEPT !.site = site, !.ph = "enter", !.cmd = cmd, !.str = <<>>,
              !.sent = FALSE, !.sentUsername = FALSE, !.sentPassword = FALSE,
              !.wrote = <<>>, !.res = <<>>, !.err = ErrNil,
              !.hist = Append(@, site)]

\* The caller's top-level call returns err, wrapped in `wrap` when not empty.
Finish(s, err, wrap) ==
    [s EXCEPT !.site = "done", !.ph = "none", !.err = err, !.wrap = wrap]

\* The calls a caller can make on the session.
Calls ==
    {NewCaller(e, u, "ok") : e \in {"WithLogin", "Login"}, u \in Users}
    \cup {NewCaller(e, "a", "wrong") : e \in {"WithLogin", "Login"}}
    \cup {NewCaller(e, NoOne, "ok") : e \in {"Logout", "Op", "Close"}}

PasswordOf(s) ==
    IF s.password = "ok" /\ s.username \in Users
    THEN Password[s.username] ELSE WrongPassword

Begin(s) ==
    CASE s.entry = "WithLogin" -> [s EXCEPT !.site = "wl_lock"]
      [] s.entry = "Login" -> StartCall(s, "whoami1", CmdWhoami)
      [] s.entry = "Logout" -> StartCall(s, "logout", CmdLogout)
      [] s.entry = "Op" -> StartCall(s, "op", CmdTemp)
      [] s.entry = "Close" -> StartCall(s, "close_logout", CmdLogout)
      [] s.entry \in {"Status", "StatusDetailed"} ->
            StartCall(s, "status", CmdStatus)
      [] s.entry = "SwitchOutlet" -> StartCall(s, "switch", CmdOn)

\* The device when the session is created: at the login screen, or left
\* authenticated by an earlier session. fw: whether the firmware ends the
\* echo of Logout with a line terminator and shows the login screen ("crlf"),
\* or prints the echo alone ("bare").
DevInit(fw) ==
    {[stage |-> "user", user |-> NoOne, typed |-> NoOne, fw |-> fw,
      sw |-> FALSE, rep |-> "ok"]}
    \cup {[stage |-> "ready", user |-> u, typed |-> NoOne, fw |-> fw,
            sw |-> FALSE, rep |-> "ok"] : u \in Users}

\* Two callers, each making one of the calls.
CallerInit == [Threads -> {Begin(c) : c \in Calls}]

\* ---------------------------------------------------------- wrapped PDU
\* A *Status: nil, or the snapshot of one version of the device's outlet
\* state; Outlets is filled by a detailed Status only. energy: the Energy
\* fields of its groups and outlets have been written (by CalcEnergy); a
\* Status as fetched has them at zero.
NilStatus == [nil |-> TRUE, ver |-> 0, outlets |-> <<>>, energy |-> FALSE]
OutletsOf(v) == <<"outlet", v>>
StatusOf(v, detailed) ==
    [nil |-> FALSE, ver |-> v,
     outlets |-> IF detailed THEN OutletsOf(v) ELSE <<>>, energy |-> FALSE]

\* Errors of the wrapped PDU's Status.
ErrDecode == "failed to decode"
FetchErrors == {ErrDecode, ErrTransport}

\* What p.PDU.Status(detailed) can return.
FetchOutcomes(detailed) ==
    {[sts |-> StatusOf(devVer, detailed), err |-> ErrNil]}
    \cup {[sts |-> NilStatus, err |-> e] : e \in FetchErrors}

\* ----------------------------------------------------------------- Cached
\* The zero time.Time, and the time at which a behaviour starts.
TimeZero == 0
NowInit == MaxTTL + 1
MaxClock == NowInit + MaxElapsed
\* TTL: negative, 0 ("disables caching") and positive.
TTLs == {-1, 0, MaxTTL}

NewCached(ttl) ==
    [TTL |-> ttl, LastUpdate |-> TimeZero, LastUpdateDetailed |-> TimeZero,
     LastStatus |-> NilStatus]

NoCall ==
    [made |-> FALSE, detailed |-> FALSE, at |-> TimeZero, fetched |-> FALSE,
     fetchErr |-> ErrNil, fetchSts |-> NilStatus, err |-> ErrNil,
     ret |-> NilStatus, before |-> NewCached(0), kindAt |-> TimeZero]

CacheIdle ==
    /\ clock = NowInit
    /\ cached = NewCached(0)
    /\ call = NoCall
    /\ fetchedAt = [k \in BOOLEAN |-> TimeZero]

\* -------------------------------------------------------------- PolledPDU
ErrNotPolledYet == "status has not been polled yet"
ErrOperation == "operation failed"

\* make(chan any, 16): the capacity of the trigger channel.
TriggerCap == 16

\* The calls of PolledPDU that read the snapshot and those that change the
\* device.
ReadOps == {"Status", "Temperature"}
MutatingOps ==
    {"SwitchOutlet", "LockOutlet", "RebootOutlet", "ClearMaximumCurrents"}

\* NewPolledPDU: no snapshot, both channels empty and open. isLoginPDU: the
\* wrapped PDU also implements LoginPDU. onStatus: the callback given to
\* NewPolledPDU is not nil. tick: tmr.C holds a tick.
NewPolledPDU(isLoginPDU, onStatus) ==
    [lastStatus |-> NilStatus, stop |-> FALSE, trigger |-> 0,
     tick |-> FALSE, isLoginPDU |-> isLoginPDU, onStatus |-> onStatus]

\* The loop as "go pp.loop()" starts it. failed, sinceFail: the last fetch
\* failed, and the ticks of the timer since then. lastGood: what the most
\* recent successful fetch returned. inVer: the device's outlet state when
\* the running fetch started. sawStop: the select has taken the stop case.
\* invoked, cbArg: the calls of onStatus since the last successful fetch,
\* and the Status the last of them was given.
NewLoop ==
    [pc |-> "login", loggedIn |-> FALSE, loggedOut |-> FALSE,
     failed |-> FALSE, sinceFail |-> 0, published |-> FALSE,
     lastGood |-> NilStatus, sawStop |-> FALSE, inVer |-> 0,
     logins |-> 0, invoked |-> 0, cbArg |-> NilStatus]

\* A caller that reads (Status, Temperature), one that changes the device
\* and then triggers a refresh, and Close. wrappedBy: who has called the
\* wrapped PDU; writers: who has assigned lastStatus. pduClosed: Close has
\* closed the wrapped PDU, whose calls fail from then on. closing: a Close
\* is in p.PDU.Close(). panicked: a second Close has ended the program.
NewReader ==
    [pc |-> "idle", op |-> "Status", detailed |-> FALSE, err |-> ErrNil,
     ret |-> NilStatus, snapAtCall |-> "none", shares |-> FALSE]
NewMutator == [pc |-> "idle", err |-> ErrNil]
NewClients ==
    [rd |-> NewReader, mt |-> NewMutator, wrappedBy |-> {},
     writers |-> {}, pduClosed |-> FALSE, closing |-> FALSE,
     panicked |-> FALSE]

PollerIdle ==
    /\ pp = NewPolledPDU(FALSE, FALSE)
    /\ lp = [NewLoop EXCEPT !.pc = "exited"]
    /\ cl = NewClients

\* A behaviour of the driver alone: the wrappers are not in use.
\* No function call is under consideration.
NoFn == [f |-> "none"]

WrapperIdle ==
    /\ devVer = 0
    /\ fn = NoFn
    /\ CacheIdle
    /\ PollerIdle

InitWith(tr, fw, callers) ==
    /\ th \in callers
    /\ mu = NoOne
    /\ muLogin = NoOne
    /\ dev \in DevInit(fw)
    /\ rx = <<>>
    /\ connClosed = FALSE
    /\ transport = tr
    /\ timeouts = 0
    /\ faults = 0
    /\ WrapperIdle

Init == InitWith("reliable", "bare", CallerInit)

\* -------------------------------------------------------------- callbacks
\* What a callback hands back to communicate, with the caller's locals, the
\* device and the pending console text after the writes it made. wfail: a
\* write was attempted and failed.
CbResult(s, d, r, done, res, err, wfail) ==
    [s |-> s, dev |-> d, rx |-> r, done |-> done, res |-> res, err |-> err,
     wfail |-> wfail]

\* Mutant of EchoComplete: Logout waits for a ready prompt like any command.
EchoCompleteOnPrompt(str, cmd) == HasSuffix(str, promptReady)

\* execute: "There is no prompt after logout": the echo is complete.
EchoComplete(str, cmd) == str = cmd

\* Mutant of AtLoginPrompt: the password prompt is not recognised.
AtLoginPromptUsernameOnly(str) == HasSuffix(str, promptUsername)

\* execute: the session fell back to the login screen.
AtLoginPrompt(str) ==
    HasSuffix(str, promptUsername) \/ HasSuffix(str, promptPassword)

\* execute: the result handed to the caller on the ready prompt.
ExecuteResult(str, cmd) ==
    TrimSpace(TrimSuffix(TrimPrefix(str, cmd), CRLF \o promptReady))

\* The state of outlet 1 when a command of Status(detailed) reaches the
\* device, kept for the length of the call.
SeenAtWrite(s, d) ==
    IF s.site \in {"status", "ostatus"} THEN Append(s.seen, d.sw) ELSE s.seen

\* Mutant of executeCb: the accumulated input is kept when the command is
\* written.
executeCbKeepsInput(s, buf, d, r, wok) ==
    LET str1 == s.str \o buf
        s1 == [s EXCEPT !.str = str1]
    IN  IF s.sent /\ s.cmd = CmdLogout THEN
            IF EchoComplete(str1, s.cmd)
            THEN CbResult(s1, d, r, TRUE, <<>>, ErrNil, FALSE)
            ELSE CbResult(s1, d, r, FALSE, <<>>, ErrNil, FALSE)
        ELSE IF HasSuffix(str1, promptReady) THEN
            IF s.sent THEN
                LET out == ExecuteResult(str1, s.cmd)
                IN  CbResult([s1 EXCEPT !.str = out], d, r, TRUE, out, ErrNil,
                             FALSE)
            ELSE IF ~wok THEN
                CbResult(s1, d, r, FALSE, <<>>, ErrTransport, TRUE)
            ELSE
                LET w == Send(d, r, s.cmd)
                IN  CbResult([s1 EXCEPT !.sent = TRUE,
                                        !.wrote = Append(@, s.cmd),
                                        !.authAtQuery = d.user,
                                        !.seen = SeenAtWrite(s, d)],
                             w.dev, w.rx, FALSE, <<>>, ErrNil, FALSE)
        ELSE IF AtLoginPrompt(str1) THEN
            CbResult(s1, d, r, FALSE, <<>>, ErrLoginRequired, FALSE)
        ELSE
            CbResult(s1, d, r, FALSE, <<>>, ErrNil, FALSE)

\* The callback of execute, called with the text of one Read. wok: whether
\* a write it makes succeeds.
executeCb(s, buf, d, r, wok) ==
    LET str1 == s.str \o buf
        s1 == [s EXCEPT !.str = str1]
    IN  IF s.sent /\ s.cmd = CmdLogout THEN
            IF EchoComplete(str1, s.cmd)
            THEN CbResult(s1, d, r, TRUE, <<>>, ErrNil, FALSE)
            ELSE CbResult(s1, d, r, FALSE, <<>>, ErrNil, FALSE)
        ELSE IF HasSuffix(str1, promptReady) THEN
            IF s.sent THEN
                LET out == ExecuteResult(str1, s.cmd)
                IN  CbResult([s1 EXCEPT !.str = out], d, r, TRUE, out, ErrNil,
                             FALSE)
            ELSE IF ~wok THEN
                CbResult(s1, d, r, FALSE, <<>>, ErrTransport, TRUE)
            ELSE
                LET w == Send(d, r, s.cmd)
                IN  CbResult([s1 EXCEPT !.sent = TRUE, !.str = <<>>,
                                        !.wrote = Append(@, s.cmd),
                                        !.authAtQuery = d.user,
                                        !.seen = SeenAtWrite(s, d)],
                             w.dev, w.rx, FALSE, <<>>, ErrNil, FALSE)
        ELSE IF AtLoginPrompt(str1) THEN
            CbResult(s1, d, r, FALSE, <<>>, ErrLoginRequired, FALSE)
        ELSE
            CbResult(s1, d, r, FALSE, <<>>, ErrNil, FALSE)

\* Mutant of CredentialsRejected: one of the two credentials is enough.
CredentialsRejectedEither(sentUsername, sentPassword) ==
    sentUsername \/ sentPassword

\* Login: the invalid-credentials marker counts once both were sent.
CredentialsRejected(sentUsername, sentPassword) ==
    sentUsername /\ sentPassword

\* The longest suffix the handshake's callback looks at: a line terminator
\* and a prompt.
SuffixLen == Len(CRLF \o promptInvalidPassword)

\* The last SuffixLen tokens of a text.
Window(s) ==
    IF Len(s) > SuffixLen THEN SubSeq(s, Len(s) - SuffixLen + 1, Len(s))
    ELSE s

\* The callback of Login's handshake. It tests suffixes of str only and
\* never clears it: of str, and of the record of the writes, the last
\* SuffixLen tokens are kept.
loginCb(s, buf, d, r, wok) ==
    LET str1 == s.str \o buf
        s1 == [s EXCEPT !.str = Window(str1)]
    IN  IF HasSuffix(str1, promptReady) THEN
            CbResult(s1, d, r, TRUE, <<>>, ErrNil, FALSE)
        ELSE IF HasSuffix(str1, promptUsername) THEN
            IF ~wok THEN CbResult(s1, d, r, FALSE, <<>>, ErrTransport, TRUE)
            ELSE LET w == Send(d, r, <<s.username>>)
                 IN  CbResult([s1 EXCEPT !.sentUsername = TRUE,
                                         !.wrote = Window(Append(@, <<s.username>>))],
                              w.dev, w.rx, FALSE, <<>>, ErrNil, FALSE)
        ELSE IF HasSuffix(str1, promptPassword) THEN
            IF ~wok THEN CbResult(s1, d, r, FALSE, <<>>, ErrTransport, TRUE)
            ELSE LET w == Send(d, r, PasswordOf(s))
                 IN  CbResult([s1 EXCEPT !.sentPassword = TRUE,
                                         !.wrote = Window(Append(@, PasswordOf(s)))],
                              w.dev, w.rx, FALSE, <<>>, ErrNil, FALSE)
        ELSE IF HasSuffix(str1, promptInvalidPassword) THEN
            IF CredentialsRejected(s.sentUsername, s.sentPassword)
            THEN CbResult(s1, d, r, FALSE, <<>>, ErrInvalidPassword, FALSE)
            ELSE CbResult(s1, d, r, FALSE, <<>>, ErrNil, FALSE)
        ELSE
            CbResult(s1, d, r, FALSE, <<>>, ErrNil, FALSE)

Callback(s, buf, d, r, wok) ==
    IF s.site = "handshake" THEN loginCb(s, buf, d, r, wok)
    ELSE executeCb(s, buf, d, r, wok)

\* ------------------------------------------------------------- communicate
\* communicate returns (res, err) to its caller and releases mu (deferred).
CommReturn(s, res, err) == [s EXCEPT !.ph = "ret", !.res = res, !.err = err]

\* The outcomes a write can have: it fails on a closed connection, and may
\* fail while failures are left to inject.
WriteOutcomes ==
    IF connClosed THEN {FALSE}
    ELSE IF transport = "flaky" /\ faults < MaxFaults THEN {TRUE, FALSE}
    ELSE {TRUE}

\* Mutant of MuFree: communicate does not wait for the command lock.
MuNotAwaited == TRUE

\* p.mu.Lock()
MuFree == mu = NoOne

\* Mutant of MuLoginFree: WithLogin does not wait for the login lock.
MuLoginNotAwaited == TRUE

\* p.muLogin.Lock()
MuLoginFree == muLogin = NoOne

\* communicate: lock mu and write the blank line.
CommunicateEnter(t) ==
    /\ th[t].ph = "enter"
    /\ MuFree
    /\ \E wok \in WriteOutcomes :
        IF wok THEN
            LET w == Send(dev, rx, Blank)
            IN  /\ th' = [th EXCEPT ![t] = [@ EXCEPT !.ph = "loop",
                                              !.wrote = Append(@, Blank)]]
                /\ mu' = t
                /\ dev' = w.dev
                /\ rx' = w.rx
                /\ faults' = faults
        ELSE
            /\ th' = [th EXCEPT ![t] = CommReturn(@, <<>>, ErrTransport)]
            /\ mu' = mu
            /\ UNCHANGED <<dev, rx>>
            /\ faults' = IF connClosed THEN faults ELSE faults + 1
    /\ UNCHANGED <<muLogin, connClosed, transport, timeouts>>
    /\ UNCHANGED wrapperVars

\* Mutant of IsDeadline: the read deadline is treated like any other error.
IsDeadlineNever(err) == FALSE

\* errors.Is(err, os.ErrDeadlineExceeded)
IsDeadline(err) == err = ErrDeadlineExceeded

\* Whether c.SetReadDeadline / c.SetReadTimeout at the head of a turn
\* succeeds. It fails on a closed connection; a turn that had set its
\* deadline when the connection was closed goes on to its Read.
DeadlineOutcomes == IF connClosed THEN {TRUE, FALSE} ELSE {TRUE}

\* What p.conn.Read can return: n bytes, or an error.
ReadOutcomes ==
    IF connClosed THEN {[n |-> 0, err |-> ErrTransport]}
    ELSE {[n |-> k, err |-> ErrNil] : k \in 1..Len(rx)}
         \cup (IF timeouts < MaxTimeouts /\ (transport = "flaky" \/ rx = <<>>)
               THEN {[n |-> 0, err |-> ErrDeadlineExceeded],
                     [n |-> 0, err |-> ErrNil]}
               ELSE {})
         \cup (IF transport = "flaky" /\ faults < MaxFaults
               THEN {[n |-> 0, err |-> ErrTransport]} ELSE {})

\* execute's callback has recognised the echo of Logout: it sleeps before it
\* returns, inside communicate and with mu held.
LogoutEchoed(c) ==
    c.done /\ c.s.site # "handshake" /\ c.s.sent /\ c.s.cmd = CmdLogout

\* What communicate does with what the callback handed back (ph "sleep": the
\* callback has its result and sleeps before handing it back).
AfterCallback(t, c) ==
    /\ IF c.err # ErrNil THEN
           /\ th' = [th EXCEPT ![t] = CommReturn(c.s, <<>>, c.err)]
           /\ mu' = NoOne
       ELSE IF LogoutEchoed(c) THEN
           /\ th' = [th EXCEPT ![t] = [c.s EXCEPT !.ph = "sleep"]]
           /\ mu' = mu
       ELSE IF c.done THEN
           /\ th' = [th EXCEPT ![t] = CommReturn(c.s, c.res, ErrNil)]
           /\ mu' = NoOne
       ELSE
           /\ th' = [th EXCEPT ![t] = [c.s EXCEPT !.ph = "loop"]]
           /\ mu' = mu
    /\ dev' = c.dev
    /\ rx' = c.rx
    /\ faults' = IF c.wfail /\ ~connClosed THEN faults + 1 ELSE faults

\* communicate: one turn of the read loop, up to the callback's p.send if
\* it makes one (ph "send": the text read is in str, the write is next).
\* The transport's outcome is counted (timeouts, faults) whatever the loop
\* does with it.
CommunicateRead(t) ==
    /\ th[t].ph = "loop"
    /\ \E dok \in DeadlineOutcomes :
        IF ~dok THEN
            /\ th' = [th EXCEPT ![t] = CommReturn(@, <<>>, ErrSetReadDeadline)]
            /\ mu' = NoOne
            /\ UNCHANGED <<dev, rx, faults, timeouts>>
        ELSE
          \E rd \in ReadOutcomes :
            /\ timeouts' = IF rd.n > 0 THEN 0
                           ELSE IF rd.err = ErrTransport THEN timeouts
                           ELSE timeouts + 1
            /\ IF rd.err # ErrNil THEN
                   IF IsDeadline(rd.err) THEN
                       \* continue: Timeout
                       UNCHANGED <<th, mu, dev, rx, faults>>
                   ELSE
                       /\ th' = [th EXCEPT ![t] = CommReturn(@, <<>>, rd.err)]
                       /\ mu' = NoOne
                       /\ faults' = IF rd.err = ErrTransport /\ ~connClosed
                                    THEN faults + 1 ELSE faults
                       /\ UNCHANGED <<dev, rx>>
               ELSE IF rd.n = 0 THEN
                   \* continue: Timeout
                   UNCHANGED <<th, mu, dev, rx, faults>>
               ELSE
                   /\ th[t].site = "handshake"
                          \/ Len(th[t].str) + rd.n <= MaxStr
                   /\ LET buf == SubSeq(rx, 1, rd.n)
                          rest == SubSeq(rx, rd.n + 1, Len(rx))
                          c == Callback(th[t], buf, dev, rest, FALSE)
                      IN  IF c.wfail THEN
                              /\ th' = [th EXCEPT ![t] =
                                            [c.s EXCEPT !.ph = "send"]]
                              /\ rx' = rest
                              /\ UNCHANGED <<mu, dev, faults>>
                          ELSE AfterCallback(t, c)
    /\ UNCHANGED <<muLogin, connClosed, transport>>
    /\ UNCHANGED wrapperVars

\* The callback's p.send and what follows it in the callback; the text of
\* the Read is in str already.
CommunicateSend(t) ==
    /\ th[t].ph = "send"
    /\ \E wok \in WriteOutcomes :
          AfterCallback(t, Callback(th[t], <<>>, dev, rx, wok))
    /\ UNCHANGED <<muLogin, connClosed, transport, timeouts>>
    /\ UNCHANGED wrapperVars

\* The callback's time.Sleep is over: it hands back (true, "", nil),
\* communicate returns and releases mu.
CommunicateSleep(t) ==
    /\ th[t].ph = "sleep"
    /\ th' = [th EXCEPT ![t] = CommReturn(@, <<>>, ErrNil)]
    /\ mu' = NoOne
    /\ UNCHANGED <<muLogin, dev, rx, connClosed, transport, timeouts, faults>>
    /\ UNCHANGED wrapperVars

\* ------------------------------------------------------------------ Login
\* Login returns err: to its caller when called directly, into WithLogin
\* otherwise, which wraps a failure and runs the body on success.
LoginReturn(s, err) ==
    IF s.entry = "Login" THEN Finish(s, err, "")
    ELSE IF err # ErrNil THEN Finish(s, err, "failed to login")
    ELSE StartCall(s, "body", CmdTemp)

\* Mutant of AfterBody: WithLogin returns after the body without Logout.
AfterBodyNoLogout(s) == Finish(s, ErrNil, "")

\* WithLogin after cb(): Logout.
AfterBody(s) == StartCall(s, "wl_logout", CmdLogout)

\* Close after a successful Logout: p.conn.Close().
AfterCloseLogout(s, err) ==
    IF err # ErrNil THEN Finish(s, err, "failed to logout")
    ELSE [s EXCEPT !.site = "close_conn", !.ph = "none"]

\* The number of outlets of the device.
NumOutlets == 20

\* A "Status" transcript and an "Ostatus" transcript, by what the patterns of
\* the driver find in them: whether the total-energy, temperature and switch
\* lines are there, and the number of breaker, group and outlet rows.
Reports ==
    [kwh : BOOLEAN, temp : BOOLEAN, switches : BOOLEAN,
     breakers : 0..2, groups : 0..4, outlets : 0..(NumOutlets + 1)]

\* A Decode error with the text that follows ErrDecode in its message.
DecodeError(text) == [nil |-> FALSE, is |-> {ErrDecode}, text |-> text]
NoDecodeError == [nil |-> TRUE, is |-> {}, text |-> ""]

\* Status: group.BreakerID from group.ID.
GroupBreaker(id) ==
    CASE id \in {1, 2} -> 1
      [] id \in {3, 4} -> 2
      [] OTHER -> 0

\* Mutant of OutletTopology: the ranges start one id late.
OutletTopologyShifted(id) ==
    CASE 1 <= id /\ id <= 6 -> [breaker |-> 1, group |-> 1]
      [] 7 <= id /\ id <= 11 -> [breaker |-> 1, group |-> 2]
      [] 12 <= id /\ id <= 16 -> [breaker |-> 2, group |-> 3]
      [] 17 <= id /\ id <= 20 -> [breaker |-> 2, group |-> 4]
      [] OTHER -> [breaker |-> 0, group |-> 0]

\* statusOutlets: outlet.BreakerID and outlet.GroupID from outlet.ID.
OutletTopology(id) ==
    CASE 1 <= id /\ id <= 5 -> [breaker |-> 1, group |-> 1]
      [] 6 <= id /\ id <= 10 -> [breaker |-> 1, group |-> 2]
      [] 11 <= id /\ id <= 15 -> [breaker |-> 2, group |-> 3]
      [] 16 <= id /\ id <= 20 -> [breaker |-> 2, group |-> 4]
      [] OTHER -> [breaker |-> 0, group |-> 0]

\* The breakers (ID from 0), groups and outlets (ID from 1) made of the rows.
ParsedBreakers(n) == [i \in 1..n |-> [id |-> i - 1]]
ParsedGroups(n) == [i \in 1..n |-> [id |-> i, breaker |-> GroupBreaker(i)]]
ParsedOutlets(n) ==
    [i \in 1..n |-> [id |-> i, breaker |-> OutletTopology(i).breaker,
                     group |-> OutletTopology(i).group]]

\* PDU.statusOutlets on a transcript with n outlet rows.
statusOutlets(n) ==
    IF n = 0 THEN [err |-> DecodeError("groups"), outlets |-> <<>>]
    ELSE [err |-> NoDecodeError, outlets |-> ParsedOutlets(n)]

\* PDU.Status(detailed) on report r (rows whose numbers parse): the error and
\* whether a *Status is returned with it.
ParseStatus(r, detailed) ==
    LET part == [err |-> NoDecodeError, nil |-> FALSE, groups |-> <<>>,
                 breakers |-> <<>>, outlets |-> <<>>]
    IN  IF ~r.kwh THEN [part EXCEPT !.err = DecodeError("total Kwh")]
        ELSE IF ~r.temp THEN [part EXCEPT !.err = DecodeError("temp")]
        ELSE IF ~r.switches THEN [part EXCEPT !.err = DecodeError("switches")]
        ELSE IF r.breakers = 0 THEN [part EXCEPT !.err = DecodeError("breakers")]
        ELSE IF r.groups = 0 THEN
            [part EXCEPT !.err = DecodeError("groups"),
                         !.breakers = ParsedBreakers(r.breakers)]
        ELSE IF detailed /\ ~statusOutlets(r.outlets).err.nil THEN
            [part EXCEPT !.err = statusOutlets(r.outlets).err, !.nil = TRUE]
        ELSE [part EXCEPT !.breakers = ParsedBreakers(r.breakers),
                          !.groups = ParsedGroups(r.groups),
                          !.outlets = IF detailed
                                      THEN statusOutlets(r.outlets).outlets
                                      ELSE <<>>]

\* What the patterns of Status find in the text returned by execute.
ReportOf(res) ==
    LET found == "Status report" \in {res[i] : i \in DOMAIN res}
        short == "Status report without group rows"
                     \in {res[i] : i \in DOMAIN res}
    IN  [kwh |-> found \/ short, temp |-> found \/ short,
         switches |-> found \/ short,
         breakers |-> IF found \/ short THEN 2 ELSE 0,
         groups |-> IF found THEN 4 ELSE 0, outlets |-> 0]

\* The number of rows reOstatusOutlet finds in the text returned by execute.
OutletRows(res) ==
    IF \E i \in DOMAIN res : res[i] \in {"Ostatus report: outlet 1 On",
                                         "Ostatus report: outlet 1 Off"}
    THEN NumOutlets ELSE 0

\* Mutant of AfterStatus: a detailed Status returns without Ostatus.
AfterStatusSkipsOutlets(s) ==
    IF s.err # ErrNil THEN Finish(s, s.err, "")
    ELSE IF ~ParseStatus(ReportOf(s.res), FALSE).err.nil
         THEN Finish(s, ErrDecode, "")
    ELSE Finish(s, ErrNil, "")

\* PDU.Status after execute("Status") returned: the error of the command,
\* a Decode error, statusOutlets for a detailed call, or the snapshot.
AfterStatus(s) ==
    IF s.err # ErrNil THEN Finish(s, s.err, "")
    ELSE IF ~ParseStatus(ReportOf(s.res), FALSE).err.nil
         THEN Finish(s, ErrDecode, "")
    ELSE IF s.entry = "StatusDetailed"
         THEN StartCall(s, "ostatus", CmdOstatus)
    ELSE Finish(s, ErrNil, "")

\* PDU.statusOutlets after execute("Ostatus") returned, and Status with it.
AfterOstatus(s) ==
    IF s.err # ErrNil THEN Finish(s, s.err, "")
    ELSE IF ~statusOutlets(OutletRows(s.res)).err.nil
         THEN Finish(s, ErrDecode, "")
    ELSE Finish(s, ErrNil, "")

\* Mutant of AfterWhoAmI: a session of another user is not logged out.
AfterWhoAmIKeepsSession(s, user) ==
    IF user # s.username
    THEN StartCall([s EXCEPT !.user = user], "handshake", Blank)
    ELSE LoginReturn([s EXCEPT !.user = user], ErrNil)

\* Login after its first WhoAmI returned user: log out a different user,
\* return when already logged in as username.
AfterWhoAmI(s, user) ==
    IF user # s.username
    THEN StartCall([s EXCEPT !.user = user], "relogout", CmdLogout)
    ELSE LoginReturn([s EXCEPT !.user = user], ErrNil)

\* Temperature after execute("Temp") returned: its error, or "failed to find
\* temp" when the output has no temperature line.
AfterTemperature(s) ==
    IF s.err # ErrNil THEN Finish(s, s.err, "")
    ELSE IF ~FindTemp(s.res) THEN Finish(s, ErrNoTemp, "")
    ELSE Finish(s, ErrNil, "")

\* The caller of communicate (execute, WhoAmI, Login, WithLogin, Logout,
\* Close or a device operation) goes on with what communicate returned.
Continue(s) ==
    CASE s.site = "whoami1" ->
            IF s.err # ErrNil THEN
                IF s.err # ErrLoginRequired THEN LoginReturn(s, s.err)
                ELSE StartCall(s, "handshake", Blank)
            ELSE IF FindWhoami(s.res) = NoOne THEN
                LoginReturn(s, ErrNoUserName)
            ELSE AfterWhoAmI(s, FindWhoami(s.res))
      [] s.site = "relogout" ->
            IF s.err # ErrNil THEN LoginReturn(s, s.err)
            ELSE StartCall(s, "handshake", Blank)
      [] s.site = "handshake" ->
            IF s.err # ErrNil THEN LoginReturn(s, s.err)
            ELSE StartCall(s, "whoami2", CmdWhoami)
      [] s.site = "whoami2" ->
            IF s.err # ErrNil THEN LoginReturn(s, s.err)
            ELSE IF FindWhoami(s.res) = NoOne THEN
                LoginReturn(s, ErrNoUserName)
            ELSE LoginReturn([s EXCEPT !.user = FindWhoami(s.res)], ErrNil)
      [] s.site = "body" -> AfterBody(s)
      [] s.site = "wl_logout" ->
            IF s.err # ErrNil THEN Finish(s, s.err, "failed to logout")
            ELSE Finish(s, ErrNil, "")
      [] s.site \in {"logout", "switch"} -> Finish(s, s.err, "")
      [] s.site = "op" -> AfterTemperature(s)
      [] s.site = "status" -> AfterStatus(s)
      [] s.site = "ostatus" -> AfterOstatus(s)
      [] s.site = "close_logout" -> AfterCloseLogout(s, s.err)

\* The step of a caller after communicate returned. WithLogin's deferred
\* muLogin.Unlock() runs when WithLogin returns.
Return(t) ==
    /\ th[t].ph = "ret"
    /\ th' = [th EXCEPT ![t] = Continue(@)]
    /\ muLogin' = IF th[t].entry = "WithLogin" /\ Continue(th[t]).site = "done"
                  THEN NoOne ELSE muLogin
    /\ UNCHANGED <<mu, dev, rx, connClosed, transport, timeouts, faults>>
    /\ UNCHANGED wrapperVars

\* WithLogin: p.muLogin.Lock(), then Login.
WithLoginLock(t) ==
    /\ th[t].site = "wl_lock"
    /\ MuLoginFree
    /\ muLogin' = t
    /\ th' = [th EXCEPT ![t] = StartCall(@, "whoami1", CmdWhoami)]
    /\ UNCHANGED <<mu, dev, rx, connClosed, transport, timeouts, faults>>
    /\ UNCHANGED wrapperVars

\* Close: p.conn.Close() after the Logout succeeded.
ConnClose(t) ==
    /\ th[t].site = "close_conn"
    /\ connClosed' = TRUE
    /\ th' = [th EXCEPT ![t] = Finish(@, ErrNil, "")]
    /\ UNCHANGED <<mu, muLogin, dev, rx, transport, timeouts, faults>>
    /\ UNCHANGED wrapperVars

Next ==
    \E t \in Threads :
        \/ WithLoginLock(t)
        \/ CommunicateEnter(t)
        \/ CommunicateRead(t)
        \/ CommunicateSend(t)
        \/ CommunicateSleep(t)
        \/ Return(t)
        \/ ConnClose(t)

Spec == Init /\ [][Next]_vars

\* The same session over a transport that delays and fails: one caller makes
\* any of the calls while the other runs a device operation.
InitFlaky ==
    InitWith("flaky", "bare", {f \in CallerInit : f["t2"].entry = "Op"})

SpecFlaky == InitFlaky /\ [][Next]_vars

\* The session under fair scheduling: every caller makes a WithLogin, a
\* Login or a device operation. A goroutine that can run does run, and a
\* goroutine waiting for a mutex that is released again and again gets it
\* (sync.Mutex hands the lock to a starving waiter).
InitFair ==
    InitWith("reliable", "bare",
             [Threads -> {Begin(c) : c \in {k \in Calls :
                              k.entry \in {"WithLogin", "Login", "Op"}}}])

NextFair ==
    \E t \in Threads :
        \/ WithLoginLock(t)
        \/ CommunicateEnter(t)
        \/ CommunicateRead(t)
        \/ CommunicateSend(t)
        \/ CommunicateSleep(t)
        \/ Return(t)

SpecFair ==
    /\ InitFair
    /\ [][NextFair]_vars
    /\ \A t \in Threads :
        /\ WF_vars(CommunicateRead(t))
        /\ WF_vars(CommunicateSend(t))
        /\ WF_vars(CommunicateSleep(t))
        /\ WF_vars(Return(t))
        /\ SF_vars(CommunicateEnter(t))
        /\ SF_vars(WithLoginLock(t))

\* The session on a device whose firmware ends the echo of Logout with a
\* line terminator and shows the login screen: one caller makes any of the
\* calls while the other runs a device operation.
InitCrlf ==
    InitWith("reliable", "crlf", {f \in CallerInit : f["t2"].entry = "Op"})

SpecCrlf == InitCrlf /\ [][Next]_vars

\* Status on the session: one caller asks for a summary or a detailed
\* Status while the other switches outlet 1 on or asks for a detailed Status,
\* on a device whose reports may lack the group or the outlet rows.
InitStatus ==
    /\ th \in {f \in [Threads -> {Begin(NewCaller(e, NoOne, "ok")) :
                         e \in {"Status", "StatusDetailed", "SwitchOutlet"}}] :
                  /\ f["t1"].entry # "SwitchOutlet"
                  /\ f["t2"].entry # "Status"}
    /\ mu = NoOne
    /\ muLogin = NoOne
    /\ dev \in {[d EXCEPT !.rep = r] :
                  d \in DevInit("bare"),
                  r \in {"ok", "no groups", "no outlets"}}
    /\ rx = <<>>
    /\ connClosed = FALSE
    /\ transport = "reliable"
    /\ timeouts = 0
    /\ faults = 0
    /\ WrapperIdle

NextStatus ==
    \E t \in Threads :
        \/ CommunicateEnter(t)
        \/ CommunicateRead(t)
        \/ CommunicateSend(t)
        \/ Return(t)

SpecStatus == InitStatus /\ [][NextStatus]_vars

\* ========================================================== Cached.Status
\* The session is not in use while the wrappers are exercised.
DriverIdle ==
    /\ th = [t \in Threads |-> NewCaller("Op", NoOne, "ok")]
    /\ mu = NoOne
    /\ muLogin = NoOne
    /\ dev = CHOOSE d \in DevInit("bare") : TRUE
    /\ rx = <<>>
    /\ connClosed = FALSE
    /\ transport = "reliable"
    /\ timeouts = 0
    /\ faults = 0

\* Cached.IsValid: LastUpdate(Detailed).Add(TTL).After(time.Now()).
IsValid(c, detailed, now) ==
    IF detailed THEN c.LastUpdateDetailed + c.TTL > now
    ELSE c.LastUpdate + c.TTL > now

\* Cached.Status after a successful fetch: the snapshot is assigned,
\* LastUpdate is the first time.Now() (t) and, if detailed,
\* LastUpdateDetailed is the second time.Now() (t2).
Stored(c, sts, detailed, t, t2) ==
    [c EXCEPT !.LastStatus = sts, !.LastUpdate = t,
              !.LastUpdateDetailed = IF detailed THEN t2 ELSE @]

\* Mutant of AfterFetch: a failed fetch stamps the clocks.
AfterFetchStampOnError(c, detailed, res, t, t2) ==
    IF res.err # ErrNil THEN Stored(c, c.LastStatus, detailed, t, t2)
    ELSE Stored(c, res.sts, detailed, t, t2)

\* The Cached struct after p.PDU.Status(detailed) returned res; t and t2 are
\* the two readings of time.Now() that follow.
AfterFetch(c, detailed, res, t, t2) ==
    IF res.err # ErrNil THEN c ELSE Stored(c, res.sts, detailed, t, t2)

\* Mutant of Serve: the outlet list is cleared on the stored snapshot.
ServeShared(stored, detailed) ==
    LET sts == IF detailed THEN stored ELSE [stored EXCEPT !.outlets = <<>>]
    IN  [ret |-> sts, stored |-> sts]

\* sts := *p.LastStatus; if !detailed { sts.Outlets = nil }; return &sts:
\* the value returned, and the stored snapshot afterwards.
Serve(stored, detailed) ==
    [ret |-> IF detailed THEN stored ELSE [stored EXCEPT !.outlets = <<>>],
     stored |-> stored]

\* Cached.Status(detailed), by the one caller of the cache. A fetch takes d
\* clock units; the second time.Now() of a successful detailed fetch reads
\* the clock e units after the first.
CachedStatus(detailed) ==
    /\ \E res \in FetchOutcomes(detailed), d \in 0..1, e \in 0..1 :
        LET stale == ~IsValid(cached, detailed, clock)
            failed == stale /\ res.err # ErrNil
            c1 == IF stale
                  THEN AfterFetch(cached, detailed, res, clock + d,
                                  clock + d + e)
                  ELSE cached
            sv == Serve(c1.LastStatus, detailed)
        IN  /\ clock + d + e <= MaxClock
            /\ stale \/ (d = 0 /\ res.err = ErrNil)
            /\ (stale /\ ~failed /\ detailed) \/ e = 0
            /\ cached' = IF failed THEN c1
                         ELSE [c1 EXCEPT !.LastStatus = sv.stored]
            /\ clock' = clock + d + e
            /\ fetchedAt' = IF stale /\ ~failed
                            THEN [fetchedAt EXCEPT ![detailed] = clock + d + e]
                            ELSE fetchedAt
            /\ call' = [made |-> TRUE, detailed |-> detailed, at |-> clock,
                        fetched |-> stale,
                        fetchErr |-> IF stale THEN res.err ELSE ErrNil,
                        fetchSts |-> IF stale THEN res.sts ELSE NilStatus,
                        err |-> IF failed THEN res.err ELSE ErrNil,
                        ret |-> IF failed THEN NilStatus ELSE sv.ret,
                        before |-> cached,
                        kindAt |-> fetchedAt[detailed]]
    /\ UNCHANGED <<fn, driverVars, devVer, pollerVars>>

\* Time passes.
CacheTick ==
    /\ clock < MaxClock
    /\ clock' = clock + 1
    /\ UNCHANGED <<fn, driverVars, devVer, cached, call, fetchedAt, pollerVars>>

\* The device's outlet state changes.
DeviceChange ==
    /\ devVer < MaxVer
    /\ devVer' = devVer + 1
    /\ UNCHANGED <<fn, driverVars, cacheVars, pollerVars>>

InitCache ==
    /\ DriverIdle
    /\ fn = NoFn
    /\ PollerIdle
    /\ devVer = 0
    /\ clock = NowInit
    /\ cached \in {NewCached(ttl) : ttl \in TTLs}
    /\ call = NoCall
    /\ fetchedAt = [k \in BOOLEAN |-> TimeZero]

NextCache ==
    \/ \E detailed \in BOOLEAN : CachedStatus(detailed)
    \/ CacheTick
    \/ DeviceChange

SpecCache == InitCache /\ [][NextCache]_vars

\* ---- SwitchOutlet / LockOutlet / RebootOutlet / ClearMaximumCurrents
\* Mutant of Forwarded: a forwarded operation resets both clocks.
ForwardedInvalidates(c) ==
    [c EXCEPT !.LastUpdate = TimeZero, !.LastUpdateDetailed = TimeZero]

\* Cached embeds PDU and defines Status and IsValid only: the other methods
\* are the wrapped PDU's, which knows nothing of the Cached struct.
Forwarded(c) == c

\* A mutating operation called on the *Cached: the wrapped PDU executes it
\* and its result is the caller's. The four operations differ in the
\* operation only. Whether the device's outlet state changed does not
\* follow from the result: an operation may leave the outlets as they were,
\* and the driver may fail after it has written the command. fn records the
\* result of the last such call, and the struct and the time when it was
\* made.
CachedMutator(op) ==
    /\ op \in MutatingOps
    /\ \E ok \in BOOLEAN, changed \in BOOLEAN :
        /\ changed => devVer < MaxVer
        /\ devVer' = IF changed THEN devVer + 1 ELSE devVer
        /\ fn' = [f |-> "forwarded",
                  err |-> IF ok THEN ErrNil ELSE ErrOperation,
                  cached |-> cached, at |-> clock]
    /\ cached' = Forwarded(cached)
    /\ UNCHANGED <<driverVars, clock, call, fetchedAt, pollerVars>>

NextForward ==
    \/ \E detailed \in BOOLEAN : CachedStatus(detailed)
    \/ CacheTick
    \/ \E op \in MutatingOps : CachedMutator(op)
    \/ DeviceChange

\* A cache that caches: TTL is positive.
InitForward == InitCache /\ cached.TTL > 0

SpecForward == InitForward /\ [][NextForward]_vars

\* ------------------------------------------- Cached.Status, concurrently
\* Cached has no lock: callers of Status on one *Cached interleave between
\* its IsValid check, the fetch from the wrapped PDU, each of the assignments
\* of the snapshot and the clocks, and the copy that is returned. fn holds the
\* callers; epoch counts, per kind of call, the assignments of its clock.
Callers == {"c1", "c2"}
NewStatusCall(detailed) ==
    [pc |-> "check", detailed |-> detailed, fetched |-> FALSE, window |-> 0,
     res |-> [sts |-> NilStatus, err |-> ErrNil], err |-> ErrNil,
     ret |-> NilStatus]

\* if !p.IsValid(detailed)
StatusCheck(c) ==
    LET s == fn.cs[c]
        valid == IsValid(cached, s.detailed, clock)
    IN  /\ s.pc = "check"
        /\ fn' = [fn EXCEPT !.cs[c].pc = IF valid THEN "serve" ELSE "fetch",
                            !.cs[c].window = fn.epoch[s.detailed]]
        /\ UNCHANGED <<driverVars, devVer, cacheVars, pollerVars>>

\* sts, err := p.PDU.Status(detailed); if err != nil { return nil, err }
StatusFetch(c) ==
    LET s == fn.cs[c]
    IN  /\ s.pc = "fetch"
        /\ \E res \in FetchOutcomes(s.detailed) :
              fn' = [fn EXCEPT !.cs[c].fetched = TRUE,
                               !.cs[c].res = res,
                               !.cs[c].err = res.err,
                               !.cs[c].pc = IF res.err # ErrNil THEN "done"
                                            ELSE "store",
                               !.fetches = @ + 1]
        /\ UNCHANGED <<driverVars, devVer, cacheVars, pollerVars>>

\* p.LastStatus = sts
StatusStore(c) ==
    LET s == fn.cs[c]
    IN  /\ s.pc = "store"
        /\ cached' = [cached EXCEPT !.LastStatus = s.res.sts]
        /\ fn' = [fn EXCEPT !.cs[c].pc = "stamp"]
        /\ UNCHANGED <<driverVars, devVer, clock, call, fetchedAt, pollerVars>>

\* p.LastUpdate = time.Now()
StatusStamp(c) ==
    LET s == fn.cs[c]
    IN  /\ s.pc = "stamp"
        /\ cached' = [cached EXCEPT !.LastUpdate = clock]
        /\ fn' = [fn EXCEPT !.cs[c].pc = IF s.detailed THEN "stampDetailed"
                                         ELSE "serve",
                            !.epoch[FALSE] = @ + 1]
        /\ UNCHANGED <<driverVars, devVer, clock, call, fetchedAt, pollerVars>>

\* if detailed { p.LastUpdateDetailed = time.Now() }
StatusStampDetailed(c) ==
    LET s == fn.cs[c]
    IN  /\ s.pc = "stampDetailed"
        /\ cached' = [cached EXCEPT !.LastUpdateDetailed = clock]
        /\ fn' = [fn EXCEPT !.cs[c].pc = "serve", !.epoch[TRUE] = @ + 1]
        /\ UNCHANGED <<driverVars, devVer, clock, call, fetchedAt, pollerVars>>

\* sts := *p.LastStatus; if !detailed { sts.Outlets = nil }; return &sts, nil
StatusServe(c) ==
    LET s == fn.cs[c]
    IN  /\ s.pc = "serve"
        /\ fn' = [fn EXCEPT !.cs[c].pc = "done",
                            !.cs[c].ret = Serve(cached.LastStatus,
                                                s.detailed).ret]
        /\ UNCHANGED <<driverVars, devVer, cacheVars, pollerVars>>

InitShared ==
    /\ DriverIdle
    /\ PollerIdle
    /\ devVer = 0
    /\ clock = NowInit
    /\ cached \in {NewCached(ttl) : ttl \in TTLs}
    /\ call = NoCall
    /\ fetchedAt = [k \in BOOLEAN |-> TimeZero]
    /\ fn \in {[f |-> "status", cs |-> cs, fetches |-> 0,
                epoch |-> [k \in BOOLEAN |-> 0]] :
               cs \in [Callers -> {NewStatusCall(d) : d \in BOOLEAN}]}

NextShared ==
    \/ \E c \in Callers : StatusCheck(c)
    \/ \E c \in Callers : StatusFetch(c)
    \/ \E c \in Callers : StatusStore(c)
    \/ \E c \in Callers : StatusStamp(c)
    \/ \E c \in Callers : StatusStampDetailed(c)
    \/ \E c \in Callers : StatusServe(c)
    \/ CacheTick
    \/ DeviceChange

SpecShared == InitShared /\ [][NextShared]_vars

\* ============================================================= PolledPDU
Min(a, b) == IF a < b THEN a ELSE b

\* The program runs until a panic.
Alive == ~cl.panicked

\* ---- loop()
\* The type assertion p.PDU.(LoginPDU) and Login: a failed Login ends the
\* loop before "defer pp.Logout()" is reached.
\* Mutant of AfterLogin: the loop goes on after a failed Login.
AfterLoginIgnoreError(l, ok) ==
    [l EXCEPT !.pc = "fetch", !.loggedIn = ok, !.logins = @ + 1]

\* pp.Login returned: an error ends loop(), success registers the deferred
\* Logout and enters the for loop. logins counts the calls of Login.
AfterLogin(l, ok) ==
    IF ok THEN [l EXCEPT !.pc = "fetch", !.loggedIn = TRUE, !.logins = @ + 1]
    ELSE [l EXCEPT !.pc = "exited", !.logins = @ + 1]

LoopLogin ==
    /\ Alive
    /\ lp.pc = "login"
    /\ IF pp.isLoginPDU THEN
           /\ \E ok \in BOOLEAN :
                /\ ok => ~cl.pduClosed
                /\ lp' = AfterLogin(lp, ok)
           /\ cl' = [cl EXCEPT !.wrappedBy = @ \cup {"loop"}]
       ELSE
           /\ lp' = [lp EXCEPT !.pc = "fetch"]
           /\ cl' = cl
    /\ UNCHANGED <<fn, driverVars, devVer, cacheVars, pp>>

\* The loop calls p.PDU.Status(true).
LoopFetchStart ==
    /\ Alive
    /\ lp.pc = "fetch"
    /\ lp' = [lp EXCEPT !.pc = "fetching", !.inVer = devVer]
    /\ cl' = [cl EXCEPT !.wrappedBy = @ \cup {"loop"}]
    /\ UNCHANGED <<fn, driverVars, devVer, cacheVars, pp>>

\* Mutant of RetainOnError: a failed fetch drops the snapshot.
DropOnError(ls) == NilStatus

\* err != nil: slog.Error and continue; lastStatus is not assigned.
RetainOnError(ls) == ls

\* Mutant of LoopFetchFail: a failed fetch goes on to the callback.
LoopFetchFailCallsBack ==
    /\ Alive
    /\ lp.pc = "fetching"
    /\ \E e \in FetchErrors :
        /\ lp' = [lp EXCEPT !.pc = "callback", !.failed = TRUE,
                            !.sinceFail = 0]
        /\ pp' = [pp EXCEPT !.lastStatus = RetainOnError(@)]
    /\ UNCHANGED <<fn, driverVars, devVer, cacheVars, cl>>

\* p.PDU.Status(true) fails: "continue" goes straight to the next fetch.
LoopFetchFail ==
    /\ Alive
    /\ lp.pc = "fetching"
    /\ \E e \in FetchErrors :
        /\ lp' = [lp EXCEPT !.pc = "fetch", !.failed = TRUE, !.sinceFail = 0]
        /\ pp' = [pp EXCEPT !.lastStatus = RetainOnError(@)]
    /\ UNCHANGED <<fn, driverVars, devVer, cacheVars, cl>>

\* p.PDU.Status(true) succeeds: p.lastStatus points to the new Status; a
\* value returned earlier no longer shares anything with the stored one.
LoopFetchOk ==
    /\ Alive
    /\ lp.pc = "fetching"
    /\ ~cl.pduClosed
    /\ LET sts == StatusOf(lp.inVer, TRUE)
       IN  /\ pp' = [pp EXCEPT !.lastStatus = sts]
           /\ lp' = [lp EXCEPT !.pc = "callback", !.failed = FALSE,
                               !.sinceFail = 0, !.published = TRUE,
                               !.lastGood = sts, !.invoked = 0,
                               !.cbArg = NilStatus]
    /\ cl' = [cl EXCEPT !.writers = @ \cup {"loop"}, !.rd.shares = FALSE]
    /\ UNCHANGED <<fn, driverVars, devVer, cacheVars>>

\* What Status hands out of the stored snapshot: the pointer itself when
\* detailed, else a copy of the struct whose Groups slice is the stored one.
\* Temperature returns a number.
SharesStored(op) == op = "Status"

\* CalcEnergy(prevSts, newSts) assigns newSts.Groups[i].Energy and
\* newSts.Outlets[i].Energy.
CalcEnergyWrites(sts) == [sts EXCEPT !.energy = TRUE]

\* if p.onStatus != nil { p.onStatus(p.lastStatus) }: the callback gets the
\* stored pointer; one that integrates energy (CalcEnergy) writes into the
\* Status it is given, which every holder of that Status sees.
LoopOnStatus ==
    /\ Alive
    /\ lp.pc = "callback"
    /\ IF pp.onStatus THEN
           \E writes \in BOOLEAN :
               IF writes THEN
                   /\ pp' = [pp EXCEPT !.lastStatus = CalcEnergyWrites(@)]
                   /\ lp' = [lp EXCEPT !.pc = "select",
                                       !.lastGood = CalcEnergyWrites(@),
                                       !.invoked = @ + 1,
                                       !.cbArg = pp.lastStatus]
                   /\ cl' = IF cl.rd.shares
                            THEN [cl EXCEPT !.rd.ret = CalcEnergyWrites(@)]
                            ELSE cl
               ELSE
                   /\ lp' = [lp EXCEPT !.pc = "select", !.invoked = @ + 1,
                                       !.cbArg = pp.lastStatus]
                   /\ UNCHANGED <<pp, cl>>
       ELSE
           /\ lp' = [lp EXCEPT !.pc = "select"]
           /\ UNCHANGED <<pp, cl>>
    /\ UNCHANGED <<fn, driverVars, devVer, cacheVars>>

\* case <-p.stop: break. The break leaves the select, not the for loop.
AfterStop(l) == [l EXCEPT !.pc = "fetch", !.sawStop = TRUE]

\* The select: the closed stop channel, a tick or a trigger is received.
LoopSelect ==
    /\ Alive
    /\ lp.pc = "select"
    /\ \/ /\ pp.stop
          /\ lp' = AfterStop(lp)
          /\ pp' = pp
       \/ /\ pp.tick
          /\ lp' = [lp EXCEPT !.pc = "fetch"]
          /\ pp' = [pp EXCEPT !.tick = FALSE]
       \/ /\ pp.trigger > 0
          /\ lp' = [lp EXCEPT !.pc = "fetch"]
          /\ pp' = [pp EXCEPT !.trigger = @ - 1]
    /\ UNCHANGED <<fn, driverVars, devVer, cacheVars, cl>>

\* The ticker fires after one pollInterval: tmr.C holds at most one tick.
PollTick ==
    /\ Alive
    /\ lp.pc # "exited"
    /\ ~pp.tick \/ (lp.failed /\ lp.sinceFail < MaxTicks)
    /\ pp' = [pp EXCEPT !.tick = TRUE]
    /\ lp' = [lp EXCEPT !.sinceFail =
                 IF lp.failed THEN Min(@ + 1, MaxTicks) ELSE @]
    /\ UNCHANGED <<fn, driverVars, devVer, cacheVars, cl>>

\* ---- Status / Temperature
\* Mutant of NotPolled: the nil check never fires.
NotPolledNever(ls) == FALSE

\* p.lastStatus == nil
NotPolled(ls) == ls.nil

\* What Status(detailed) and Temperature return from the snapshot ls: the
\* snapshot itself, a copy without outlets, or the snapshot's temperature
\* (here: the snapshot's value without its outlets).
PolledResult(ls, op, detailed) ==
    IF op = "Status" /\ detailed THEN ls ELSE [ls EXCEPT !.outlets = <<>>]

\* The snapshot as a caller finds it: none yet, the one of the loop's last
\* fetch, or one retained over a failed fetch.
SnapState ==
    IF ~lp.published THEN "none"
    ELSE IF lp.failed THEN "retained" ELSE "fresh"

ReaderCall(op, detailed) ==
    /\ Alive
    /\ cl.rd.pc \in {"idle", "done"}
    /\ op = "Temperature" => ~detailed
    /\ cl' = [cl EXCEPT !.rd = [pc |-> "check", op |-> op,
                                detailed |-> detailed, err |-> ErrNil,
                                ret |-> NilStatus,
                                snapAtCall |-> SnapState,
                                shares |-> FALSE]]
    /\ UNCHANGED <<fn, driverVars, devVer, cacheVars, pp, lp>>

\* if p.lastStatus == nil { return nil, ErrNotPolledYet }
ReaderCheck ==
    /\ Alive
    /\ cl.rd.pc = "check"
    /\ cl' = IF NotPolled(pp.lastStatus)
             THEN [cl EXCEPT !.rd.pc = "done", !.rd.err = ErrNotPolledYet]
             ELSE [cl EXCEPT !.rd.pc = "read"]
    /\ UNCHANGED <<fn, driverVars, devVer, cacheVars, pp, lp>>

\* The second read of p.lastStatus, and the return.
ReaderRead ==
    /\ Alive
    /\ cl.rd.pc = "read"
    /\ cl' = [cl EXCEPT !.rd.pc = "done",
                        !.rd.shares = SharesStored(cl.rd.op),
                        !.rd.ret = PolledResult(pp.lastStatus, cl.rd.op,
                                                cl.rd.detailed)]
    /\ UNCHANGED <<fn, driverVars, devVer, cacheVars, pp, lp>>

\* ---- SwitchOutlet / LockOutlet / RebootOutlet / ClearMaximumCurrents
\* Mutant of MutatorCall: a failed operation goes on to the trigger.
MutatorCallTriggersOnError(op) ==
    /\ Alive
    /\ op \in MutatingOps
    /\ cl.mt.pc \in {"idle", "done"}
    /\ \E ok \in BOOLEAN, changed \in BOOLEAN :
        /\ (ok \/ changed) => ~cl.pduClosed
        /\ changed => devVer < MaxVer
        /\ devVer' = IF changed THEN devVer + 1 ELSE devVer
        /\ cl' = [cl EXCEPT !.mt = [pc |-> "send",
                                    err |-> IF ok THEN ErrNil
                                            ELSE ErrOperation],
                            !.wrappedBy = @ \cup {"mutator"}]
    /\ UNCHANGED <<fn, driverVars, cacheVars, pp, lp>>

\* The operation on the wrapped PDU; a failure is returned at once. The four
\* calls differ in the operation only. Whether the device's outlet state
\* changed does not follow from the result: an operation may leave the
\* outlets as they were, and the driver may fail after it has written the
\* command. A closed wrapped PDU fails without reaching the device.
MutatorCall(op) ==
    /\ Alive
    /\ op \in MutatingOps
    /\ cl.mt.pc \in {"idle", "done"}
    /\ \E ok \in BOOLEAN, changed \in BOOLEAN :
        /\ (ok \/ changed) => ~cl.pduClosed
        /\ changed => devVer < MaxVer
        /\ devVer' = IF changed THEN devVer + 1 ELSE devVer
        /\ IF ok THEN
               cl' = [cl EXCEPT !.mt = [pc |-> "send", err |-> ErrNil],
                                !.wrappedBy = @ \cup {"mutator"}]
           ELSE
               cl' = [cl EXCEPT !.mt = [pc |-> "done", err |-> ErrOperation],
                                !.wrappedBy = @ \cup {"mutator"}]
    /\ UNCHANGED <<fn, driverVars, cacheVars, pp, lp>>

\* A value is added to the trigger channel.
Enqueue(n) == n + 1

\* p.trigger <- nil: a send on a channel of capacity TriggerCap, which waits
\* while the channel is full.
MutatorSend ==
    /\ Alive
    /\ cl.mt.pc = "send"
    /\ pp.trigger < TriggerCap
    /\ pp' = [pp EXCEPT !.trigger = Enqueue(@)]
    /\ cl' = [cl EXCEPT !.mt.pc = "done"]
    /\ UNCHANGED <<fn, driverVars, devVer, cacheVars, lp>>

\* ---- Close
\* Close is called: close(p.stop). Closing a channel that is closed
\* already panics, which ends the program; else the call goes on to
\* p.PDU.Close().
PolledClose ==
    /\ Alive
    /\ IF pp.stop THEN
           /\ cl' = [cl EXCEPT !.panicked = TRUE]
           /\ pp' = pp
       ELSE
           /\ pp' = [pp EXCEPT !.stop = TRUE]
           /\ cl' = [cl EXCEPT !.closing = TRUE]
    /\ UNCHANGED <<fn, driverVars, devVer, cacheVars, lp>>

\* return p.PDU.Close(): the wrapped PDU's Close returns. It has closed the
\* wrapped PDU, or failed and left it open (the driver's, when its Logout
\* fails).
PolledCloseWrapped ==
    /\ Alive
    /\ cl.closing
    /\ \E closed \in BOOLEAN :
          cl' = [cl EXCEPT !.closing = FALSE,
                           !.wrappedBy = @ \cup {"Close"},
                           !.pduClosed = closed]
    /\ UNCHANGED <<fn, driverVars, devVer, cacheVars, pp, lp>>


InitPoller ==
    /\ DriverIdle
    /\ fn = NoFn
    /\ CacheIdle
    /\ devVer = 0
    /\ pp \in {NewPolledPDU(b, c) : b, c \in BOOLEAN}
    /\ lp = NewLoop
    /\ cl = NewClients

LoopStep ==
    \/ LoopLogin \/ LoopFetchStart \/ LoopFetchFail \/ LoopFetchOk
    \/ LoopOnStatus \/ LoopSelect

\* The loop with the callers that read the snapshot and close the poller,
\* while the device's outlet state changes.
NextPoller ==
    \/ LoopLogin
    \/ LoopFetchStart
    \/ LoopFetchFail
    \/ LoopFetchOk
    \/ LoopOnStatus
    \/ LoopSelect
    \/ PollTick
    \/ \E op \in ReadOps, detailed \in BOOLEAN : ReaderCall(op, detailed)
    \/ ReaderCheck
    \/ ReaderRead
    \/ DeviceChange
    \/ PolledClose
    \/ PolledCloseWrapped

SpecPoller == InitPoller /\ [][NextPoller]_vars

\* The loop with the callers that change the device and close the poller,
\* where the loop's goroutine keeps running as long as the program does. A
\* fetch may fail every time.
NextLoop ==
    \/ LoopLogin
    \/ LoopFetchStart
    \/ LoopFetchFail
    \/ LoopFetchOk
    \/ LoopOnStatus
    \/ LoopSelect
    \/ PollTick
    \/ \E op \in MutatingOps : MutatorCall(op)
    \/ MutatorSend
    \/ DeviceChange
    \/ PolledClose
    \/ PolledCloseWrapped

SpecPollerFair ==
    /\ InitPoller
    /\ [][NextLoop]_vars
    /\ WF_vars(LoopStep)

\* ===================================================== outlet operations
\* The text of an outlet id is a sequence of characters.
IdChars == {"0", "1", "2", "9", "x", "a", "l", "-"}
All == <<"a", "l", "l">>

RECURSIVE SeqsUpTo(_, _)
SeqsUpTo(S, n) ==
    IF n = 0 THEN {<<>>}
    ELSE LET shorter == SeqsUpTo(S, n - 1)
         IN  shorter \cup {Append(q, c) : q \in {r \in shorter : Len(r) = n - 1},
                                          c \in S}

\* An error value: nil, or an error with the sentinel errors that errors.Is
\* finds in its chain.
NoError == [nil |-> TRUE, is |-> {}]
ErrorOf(sentinels) == [nil |-> FALSE, is |-> sentinels]
ErrInvalidOutletID == "invalid outlet ID"
ErrNotFound == "failed to find outlet"

\* The value of a digit character in strconv.ParseInt: 0-9, then a-z as
\* 10-35.
DigitValue(c) ==
    CASE c = "0" -> 0 [] c = "1" -> 1 [] c = "2" -> 2 [] c = "9" -> 9
      [] c = "a" -> 10 [] c = "l" -> 21 [] c = "x" -> 33
      [] OTHER -> 99

\* The digits ds read in `base` on top of acc; -1 for a digit the base does
\* not have.
RECURSIVE DigitsValue(_, _, _)
DigitsValue(ds, base, acc) ==
    IF ds = <<>> THEN acc
    ELSE IF DigitValue(Head(ds)) >= base THEN -1
    ELSE DigitsValue(Tail(ds), base, acc * base + DigitValue(Head(ds)))

\* strconv.ParseInt(s, 0, 64): an optional sign, then base 16 after "0x"
\* (with a digit behind it), base 8 after a leading "0", base 10 otherwise.
ParseInt(str) ==
    LET neg == str # <<>> /\ Head(str) = "-"
        body == IF neg THEN Tail(str) ELSE str
        hex == Len(body) >= 3 /\ body[1] = "0" /\ body[2] = "x"
        oct == ~hex /\ body # <<>> /\ body[1] = "0"
        base == IF hex THEN 16 ELSE IF oct THEN 8 ELSE 10
        ds == IF hex THEN SubSeq(body, 3, Len(body))
              ELSE IF oct THEN Tail(body) ELSE body
        v == DigitsValue(ds, base, 0)
    IN  IF body = <<>> \/ v < 0 THEN [ok |-> FALSE, val |-> 0]
        ELSE [ok |-> TRUE, val |-> IF neg THEN 0 - v ELSE v]

\* PDU.lookupID
lookupID(idStr) ==
    IF idStr = All THEN [id |-> 0, err |-> NoError]
    ELSE IF ParseInt(idStr).ok THEN
        IF ParseInt(idStr).val < 0 \/ ParseInt(idStr).val > NumOutlets
        THEN [id |-> -1, err |-> ErrorOf({ErrInvalidOutletID})]
        ELSE [id |-> ParseInt(idStr).val, err |-> NoError]
    ELSE [id |-> -1, err |-> ErrorOf({ErrNotFound})]

OutletOps == {"SwitchOutlet", "LockOutlet", "RebootOutlet"}

\* The command an outlet operation executes for outlet id.
OutletCommand(op, state, id) ==
    CASE op = "SwitchOutlet" -> <<IF state THEN "On" ELSE "Off", id>>
      [] op = "LockOutlet" -> <<IF state THEN "Lock" ELSE "Unlock", id>>
      [] OTHER -> <<"Reboot", id>>

\* How each operation returns the error of lookupID: SwitchOutlet formats it
\* with %s, LockOutlet and RebootOutlet wrap ErrInvalidOutletID and format
\* the error itself with %s.
LookupError(op, err) ==
    IF op = "SwitchOutlet" THEN ErrorOf({})
    ELSE ErrorOf({ErrInvalidOutletID})

\* SwitchOutlet / LockOutlet / RebootOutlet up to the call of execute: the
\* error returned before it, or the command handed to execute.
OutletCall(op, idStr, state) ==
    LET l == lookupID(idStr)
    IN  IF ~l.err.nil THEN [err |-> LookupError(op, l.err), cmd |-> <<>>]
        ELSE [err |-> NoError, cmd |-> OutletCommand(op, state, l.id)]

InitOutlet ==
    /\ DriverIdle
    /\ CacheIdle
    /\ PollerIdle
    /\ devVer = 0
    /\ fn \in {[f |-> "outlet", op |-> op, idStr |-> i, state |-> st,
                done |-> FALSE, err |-> NoError, cmd |-> <<>>] :
                  op \in OutletOps, i \in SeqsUpTo(IdChars, MaxIdLen),
                  st \in BOOLEAN}

CallOutletOp ==
    /\ fn.f = "outlet" /\ ~fn.done
    /\ fn' = [fn EXCEPT !.done = TRUE,
                        !.err = OutletCall(fn.op, fn.idStr, fn.state).err,
                        !.cmd = OutletCall(fn.op, fn.idStr, fn.state).cmd]
    /\ UNCHANGED <<driverVars, devVer, cacheVars, pollerVars>>

NextOutlet == CallOutletOp

SpecOutlet == InitOutlet /\ [][NextOutlet]_vars

\* ================================================================= Status
NoResult ==
    [err |-> NoDecodeError, nil |-> TRUE, groups |-> <<>>,
     breakers |-> <<>>, outlets |-> <<>>]

InitReport ==
    /\ DriverIdle
    /\ CacheIdle
    /\ PollerIdle
    /\ devVer = 0
    /\ fn \in {[f |-> "status", report |-> r, detailed |-> d,
                done |-> FALSE, res |-> NoResult] :
                  r \in Reports, d \in BOOLEAN}

CallStatus ==
    /\ fn.f = "status" /\ ~fn.done
    /\ fn' = [fn EXCEPT !.done = TRUE,
                        !.res = ParseStatus(fn.report, fn.detailed)]
    /\ UNCHANGED <<driverVars, devVer, cacheVars, pollerVars>>

NextReport == CallStatus

SpecReport == InitReport /\ [][NextReport]_vars

\* ============================================================= CalcEnergy
\* Energy is counted in units of 1/2000 kWh, so that
\* 1e-3 * deltaT * (prevPower + newPower) / 2 kWh, with deltaT in hours and
\* powers in W, is deltaT * (prevPower + newPower) units. float32 rounding is
\* not modelled.
UnitsPerKWh == 2000

\* The measurements of a group or an outlet that CalcEnergy reads and writes.
Measured(current, voltage, energy) ==
    [TrueRMSCurrent |-> current, TrueRMSVoltage |-> voltage,
     Energy |-> energy]

\* Mutant of Integrate: the running total starts again from zero.
IntegrateReset(prev, new, deltaT) ==
    [new EXCEPT !.Energy =
        deltaT * (prev.TrueRMSCurrent * prev.TrueRMSVoltage
                  + new.TrueRMSCurrent * new.TrueRMSVoltage)]

\* One iteration of CalcEnergy's loops: prevPower, newPower, energy, and the
\* assignment to the new element's Energy.
Integrate(prev, new, deltaT) ==
    LET prevPower == prev.TrueRMSCurrent * prev.TrueRMSVoltage
        newPower == new.TrueRMSCurrent * new.TrueRMSVoltage
        energy == deltaT * (prevPower + newPower)
    IN  [new EXCEPT !.Energy = prev.Energy + energy]

\* CalcEnergy(prevSts, newSts) for snapshots with equally long lists: the new
\* snapshot after the call.
CalcEnergy(prevSts, newSts) ==
    LET deltaT == newSts.Timestamp - prevSts.Timestamp
    IN  [newSts EXCEPT
            !.Groups = [i \in 1..Len(newSts.Groups) |->
                           Integrate(prevSts.Groups[i], newSts.Groups[i], deltaT)],
            !.Outlets = [i \in 1..Len(newSts.Outlets) |->
                           Integrate(prevSts.Outlets[i], newSts.Outlets[i],
                                     deltaT)]]

\* Previous measurements carry a running total, fetched ones carry none.
PrevMeasured == {Measured(c, 100, e) : c \in {1, 2}, e \in {0, 300}}
NewMeasured == {Measured(c, 100, 0) : c \in {1, 2}}

InitEnergy ==
    /\ DriverIdle
    /\ CacheIdle
    /\ PollerIdle
    /\ devVer = 0
    /\ fn \in {[f |-> "energy", done |-> FALSE,
                prevSts |-> [Timestamp |-> 0, Groups |-> <<g1, g2>>,
                             Outlets |-> <<o1>>],
                newSts |-> [Timestamp |-> dt, Groups |-> <<h1, h2>>,
                            Outlets |-> <<q1>>],
                fetched |-> [Timestamp |-> dt, Groups |-> <<h1, h2>>,
                             Outlets |-> <<q1>>]] :
                  g1 \in PrevMeasured, g2 \in PrevMeasured,
                  o1 \in PrevMeasured, h1 \in NewMeasured,
                  h2 \in NewMeasured, q1 \in NewMeasured, dt \in 0..MaxHours}

\* CalcEnergy writes into the new snapshot; fetched keeps it as it was given.
CallCalcEnergy ==
    /\ fn.f = "energy" /\ ~fn.done
    /\ fn' = [fn EXCEPT !.done = TRUE,
                        !.newSts = CalcEnergy(fn.prevSts, fn.newSts)]
    /\ UNCHANGED <<driverVars, devVer, cacheVars, pollerVars>>

NextEnergy == CallCalcEnergy

SpecEnergy == InitEnergy /\ [][NextEnergy]_vars

\* ========================================================== request path
\* The operation ids the generated handlers pass to the middlewares, and the
\* names toKebabCase makes of them.
OperationIDs ==
    {"Status", "Temperature", "WhoAmI", "SwitchOutlet", "RebootOutlet"}

toKebabCase(str) ==
    CASE str = "Status" -> "status"
      [] str = "Temperature" -> "temperature"
      [] str = "WhoAmI" -> "who-am-i"
      [] str = "ClearMaximumCurrents" -> "clear-maximum-currents"
      [] str = "SwitchOutlet" -> "switch-outlet"
      [] str = "LockOutlet" -> "lock-outlet"
      [] str = "RebootOutlet" -> "reboot-outlet"
      [] OTHER -> str

ErrMissingClientCert == "missing client certificate"
ErrAccessDenied == "access denied"

\* The common names of client certificates, and the outlet ids of requests
\* ("" for a request without an outlet).
CommonNames == {"client1", "client2"}
NoCert == "no verified chain"
NoOutlet == ""
RequestOutlets == {"1", "2"}

\* The regular expressions of the access control lists below: the strings
\* each matches.
Matches(re, str) ==
    CASE re = "^client1$" -> str = "client1"
      [] re = "^client2$" -> str = "client2"
      [] re = "client" -> str \in CommonNames
      [] re = ".*" -> TRUE
      [] re = "^1$" -> str = "1"
      [] OTHER -> FALSE

\* The name under which an outlet-scoped grant lists an operation.
ScopedOperation(operationID) ==
    CASE operationID = "switch-outlet" -> "switch"
      [] operationID = "lock-outlet" -> "lock"
      [] operationID = "reboot-outlet" -> "reboot"
      [] OTHER -> "none"

\* An entry grants whole-API operation names and outlet-scoped operations
\* gated by an expression over the outlet id.
EntryGrants(entry, operationID, outletID) ==
    \/ operationID \in entry.operations
    \/ /\ outletID # NoOutlet
       /\ \E o \in entry.outlets :
            /\ Matches(o.id, outletID)
            /\ ScopedOperation(operationID) \in o.operations

\* AccessControlList.Check: allow-only, any matching entry authorizes.
Check(acl, commonName, operationID, outletID) ==
    \E i \in 1..Len(acl) :
        /\ Matches(acl[i].name, commonName)
        /\ EntryGrants(acl[i], operationID, outletID)

\* api.OutletIDFromRequest: the outlet id of an outlet request, else "".
OutletIDFromRequest(request) == request.outlet

Entry(name, operations, outlets) ==
    [name |-> name, operations |-> operations, outlets |-> outlets]

\* The access control lists a configuration may carry: none, the entries of
\* the specification's example, whole-API grants, and combinations.
ACLs ==
    LET anySwitch == [id |-> ".*", operations |-> {"switch"}]
        firstReboot == [id |-> "^1$", operations |-> {"reboot", "switch"}]
    IN  { <<>>,
          <<Entry("^client1$", {}, {anySwitch})>>,
          <<Entry("^client2$", {"temperature", "who-am-i"}, {})>>,
          <<Entry("^client1$", {"status", "switch-outlet"}, {firstReboot}),
            Entry("^client2$", {"temperature"}, {})>>,
          <<Entry("client", {"status"}, {}),
            Entry("^client2$", {}, {firstReboot})>>,
          <<Entry("^client1$", {}, {})>> }

\* The requests: a verified client certificate's common name or none, the
\* handler's operation id, and the outlet id of the outlet operations.
Requests ==
    {[cert |-> c, operationID |-> op, outlet |-> o] :
        c \in CommonNames \cup {NoCert},
        op \in OperationIDs \ {"SwitchOutlet", "RebootOutlet"},
        o \in {NoOutlet}}
    \cup
    {[cert |-> c, operationID |-> op, outlet |-> o] :
        c \in CommonNames \cup {NoCert},
        op \in {"SwitchOutlet", "RebootOutlet"},
        o \in RequestOutlets}

\* The wrapped handler f: the operation of the served PDU is invoked.
Invoked == [err |-> ErrNil, invoked |-> TRUE]
Refused(err) == [err |-> err, invoked |-> FALSE]

\* mwAuth(f, operationID) applied to a request: what the request returns and
\* whether f ran.
mwAuth(acl, request) ==
    IF Len(acl) = 0 THEN Invoked
    ELSE IF request.cert = NoCert THEN Refused(ErrMissingClientCert)
    ELSE LET commonName == request.cert
             operationID == toKebabCase(request.operationID)
             outletID == OutletIDFromRequest(request)
         IN  IF ~Check(acl, commonName, operationID, outletID)
             THEN Refused(ErrAccessDenied)
             ELSE Invoked

\* ---- mwLogin
\* What the server's PDU is: the console driver (a LoginPDU) or another PDU
\* (a PolledPDU, say), each bare or wrapped in a *Cached.
ServerPDUs == {"driver", "cached driver", "other", "cached other"}

\* if q, ok := p.(*Cached); ok { p = q.PDU }; q, ok := p.(LoginPDU)
IsLoginPDU(pdu) == pdu \in {"driver", "cached driver"}

\* What the wrapped handler f (the inner middlewares and the operation)
\* returns: a response or nil, and an error or nil.
HandlerOutcomes ==
    [response : {"nil", "200", "500"},
     err : {ErrNil, ErrAccessDenied, ErrMissingClientCert}]

\* The course of q.WithLogin: Login fails (cb is not called), Logout fails
\* after cb, or both succeed.
Brackets == {"ok", "login fails", "logout fails"}
WithLoginError(bracket) ==
    CASE bracket = "login fails" -> "failed to login"
      [] bracket = "logout fails" -> "failed to logout"
      [] OTHER -> ErrNil

\* The handler mwLogin returns, called: f itself without a LoginPDU; else the
\* named results are assigned by cb (response, err = f(...)) and then err is
\* assigned what q.WithLogin returned.
mwLogin(pdu, f, bracket) ==
    IF ~IsLoginPDU(pdu) THEN f
    ELSE [response |-> IF bracket = "login fails" THEN "nil" ELSE f.response,
          err |-> WithLoginError(bracket)]

\* ---- the request path
\* NewStrictHandlerWithOptions(svr, {mwLog, mwAuth, mwLogin}): each
\* middleware wraps the handler built so far, so a request enters mwLogin,
\* inside its WithLogin bracket mwAuth, then mwLog (which returns what it is
\* given) and the operation. response: what the operation returns, with a
\* nil error. The result is what the outermost handler returns and whether
\* the operation ran.
RequestPath(pdu, acl, request, bracket, response) ==
    LET auth == mwAuth(acl, request)
        f == [response |-> IF auth.invoked THEN response ELSE "nil",
              err |-> auth.err]
        out == mwLogin(pdu, f, bracket)
    IN  [err |-> out.err, response |-> out.response,
         invoked |-> auth.invoked
                     /\ ~(IsLoginPDU(pdu) /\ bracket = "login fails")]

InitAuth ==
    /\ DriverIdle
    /\ CacheIdle
    /\ PollerIdle
    /\ devVer = 0
    /\ fn \in {[f |-> "request", done |-> FALSE, acl |-> acl,
                request |-> r, pdu |-> p, bracket |-> b, response |-> rsp,
                result |-> [err |-> ErrNil, response |-> "nil",
                            invoked |-> FALSE]] :
                  acl \in ACLs, r \in Requests, p \in ServerPDUs,
                  b \in Brackets, rsp \in {"200", "500"}}

ServeRequest ==
    /\ fn.f = "request" /\ ~fn.done
    /\ fn' = [fn EXCEPT !.done = TRUE,
                        !.result = RequestPath(fn.pdu, fn.acl, fn.request,
                                               fn.bracket, fn.response)]
    /\ UNCHANGED <<driverVars, devVer, cacheVars, pollerVars>>

NextAuth == ServeRequest

SpecAuth == InitAuth /\ [][NextAuth]_vars

InitLogin ==
    /\ DriverIdle
    /\ CacheIdle
    /\ PollerIdle
    /\ devVer = 0
    /\ fn \in {[f |-> "mwLogin", done |-> FALSE, pdu |-> p, handler |-> h,
                bracket |-> b, result |-> [response |-> "nil", err |-> ErrNil]] :
                  p \in ServerPDUs, h \in HandlerOutcomes, b \in Brackets}

ServeLogin ==
    /\ fn.f = "mwLogin" /\ ~fn.done
    /\ fn' = [fn EXCEPT !.done = TRUE,
                        !.result = mwLogin(fn.pdu, fn.handler, fn.bracket)]
    /\ UNCHANGED <<driverVars, devVer, cacheVars, pollerVars>>

NextLogin == ServeLogin

SpecLogin == InitLogin /\ [][NextLogin]_vars

\* ================================================================== claims
\* A caller is inside a communicate exchange: from the blank-line write until
\* communicate returns.
InComm(t) == th[t].ph \in {"loop", "send", "sleep"}

\* The call of communicate comes from execute (not from Login's handshake).
InExecute(t) == th[t].site \in Sites \ {"handshake"}

\* The Logout command has been written by this execute.
LogoutSent(t) == th[t].sent /\ th[t].cmd = CmdLogout

\* The caller is inside the WithLogin bracket: it holds the login lock.
InBracket(t) == th[t].entry = "WithLogin" /\ th[t].site \in Sites

EndsWithLoginPrompt(str) ==
    HasSuffix(str, promptUsername) \/ HasSuffix(str, promptPassword)

Range(f) == {f[i] : i \in DOMAIN f}

\* C1: at most one communicate exchange is in progress on the session at any
\* time, and the caller in it holds the command lock.
C1_OneExchangeAtATime ==
    \A t1, t2 \in Threads :
        InComm(t1) /\ InComm(t2) => t1 = t2 /\ mu = t1

\* C1 witness: one caller is in an exchange with its command written while
\* the other waits to enter communicate.
C1_Witness ==
    \E t1, t2 \in Threads :
        /\ t1 # t2
        /\ InComm(t1) /\ th[t1].sent
        /\ th[t2].ph = "enter"

\* C2: the brackets of two WithLogin calls never overlap: while one caller is
\* between taking the login lock and the return of its WithLogin (its Logout
\* included), the other WithLogin caller has made no device exchange of its
\* Login yet, or has returned already.
C2_BracketsDoNotOverlap ==
    \A t1, t2 \in Threads :
        t1 # t2 /\ InBracket(t1) /\ th[t2].entry = "WithLogin"
            => /\ th[t2].site \in {"wl_lock", "done"}
               /\ muLogin = t1

\* C2 witness: a WithLogin caller for one identity runs its Logout while a
\* WithLogin caller for another identity waits for the login lock.
C2_Witness ==
    \E t1, t2 \in Threads :
        /\ th[t1].entry = "WithLogin" /\ th[t2].entry = "WithLogin"
        /\ th[t1].username # th[t2].username
        /\ th[t1].site = "wl_logout" /\ InComm(t1)
        /\ th[t2].site = "wl_lock"

\* C3 (as claimed): while a caller is inside its WithLogin bracket after a
\* successful Login, no caller acting for another identity is in an exchange
\* with the device, whichever entry point it uses.
C3_NoForeignExchangeInBracket ==
    \A t1, t2 \in Threads :
        /\ th[t1].entry = "WithLogin"
        /\ th[t1].site \in {"body", "wl_logout"}
        /\ th[t2].username # th[t1].username
        => ~InComm(t2)

\* C4: a read that times out (deadline exceeded, or zero bytes) is absorbed:
\* it is never a caller's error and it leaves the callers, the lock and the
\* device as they were, so the loop reads again; a failing read or write
\* ends the call at once with the transport's error, unwrapped.
C4_TimeoutNotSurfaced ==
    \A t \in Threads :
        /\ th[t].err # ErrDeadlineExceeded
        /\ th[t].err = ErrSetReadDeadline => connClosed
        /\ th[t].site = "done" /\ th[t].entry \in {"Login", "Logout", "Op"}
            => th[t].wrap = ""

C4_Step ==
    /\ timeouts' = timeouts + 1 => UNCHANGED <<th, mu, dev, rx>>
    /\ faults' = faults + 1 =>
        \E t \in Threads :
            /\ th[t].ph \in {"enter", "loop", "send", "sleep"}
            /\ th'[t].ph = "ret"
            /\ th'[t].err = ErrTransport
            /\ th'[t].wrote = th[t].wrote
            /\ dev' = dev

C4_TimeoutsAbsorbed == [](C4_TimeoutNotSurfaced) /\ [][C4_Step]_vars

\* C4 witness: after MaxTimeouts consecutive timeouts in Login's handshake,
\* a failing read or write has ended the handshake with the transport error.
C4_Witness ==
    \E t \in Threads :
        /\ th[t].site = "handshake" /\ th[t].ph = "ret"
        /\ th[t].err = ErrTransport
        /\ timeouts = MaxTimeouts

\* C5: in execute, accumulated input ending with the username or password
\* prompt (unless it is a Logout already written) fails with LoginRequired;
\* if the command was not written yet, only the blank line was written.
C5_LoginRequired ==
    \A t \in Threads :
        InExecute(t) =>
            /\ th[t].ph = "loop" /\ ~LogoutSent(t)
                => ~EndsWithLoginPrompt(th[t].str)
            /\ th[t].ph = "ret" /\ ~LogoutSent(t)
               /\ EndsWithLoginPrompt(th[t].str)
                => th[t].err = ErrLoginRequired
            /\ th[t].ph = "ret" /\ th[t].err = ErrLoginRequired
                => /\ EndsWithLoginPrompt(th[t].str)
                   /\ ~LogoutSent(t)
                   /\ ~th[t].sent => th[t].wrote = <<Blank>>

\* C5 witness: a device operation failed with LoginRequired at the password
\* prompt (left by a handshake that a transport failure ended) before its
\* command was written.
C5_Witness ==
    \E t \in Threads :
        /\ th[t].site = "op" /\ th[t].ph = "ret"
        /\ th[t].err = ErrLoginRequired
        /\ ~th[t].sent
        /\ HasSuffix(th[t].str, promptPassword)

\* C6: once the Logout command is written, execute returns success exactly
\* when the input accumulated since equals the command text: it is never
\* still reading with the echo complete, it sleeps only with the echo
\* complete, and its success needs no prompt.
\* While it reads, what it has accumulated and what is still pending make up
\* the echo, so every split of the echo across reads ends in that success.
C6_LogoutOnEcho ==
    \A t \in Threads :
        InExecute(t) /\ LogoutSent(t) =>
            /\ th[t].ph = "loop"
                => /\ th[t].str # CmdLogout
                   /\ th[t].str \o rx = CmdLogout
            /\ th[t].ph = "sleep"
                => th[t].str = CmdLogout /\ mu = t
            /\ th[t].ph = "ret" /\ th[t].str = CmdLogout
                => th[t].err = ErrNil
            /\ th[t].ph = "ret" /\ th[t].err = ErrNil
                => th[t].str = CmdLogout /\ th[t].res = <<>>

\* C6 witness: a Logout returned success on the echo alone.
C6_Witness ==
    \E t \in Threads :
        /\ th[t].site = "logout" /\ th[t].ph = "ret"
        /\ LogoutSent(t)
        /\ th[t].err = ErrNil
        /\ th[t].str = CmdLogout

\* C7 (as claimed): when Close has returned, the transport is closed.
C7_CloseReleasesTransport ==
    \A t \in Threads :
        th[t].entry = "Close" /\ th[t].site = "done" => connClosed

\* C8: a WithLogin call holds the login lock throughout its bracket, calls
\* Logout after the body before it returns, and has released the lock when
\* it has returned, whatever Login or Logout returned.
C8_LogoutAndUnlock ==
    \A t \in Threads :
        th[t].entry = "WithLogin" =>
            /\ th[t].site \in Sites => muLogin = t
            /\ th[t].site = "done" => muLogin # t
            /\ th[t].site = "done" /\ "body" \in Range(th[t].hist)
                => th[t].hist[Len(th[t].hist)] = "wl_logout"
            /\ th[t].site = "done" /\ th[t].wrap = "failed to login"
                => "body" \notin Range(th[t].hist)

\* C8 witness: a WithLogin call whose body ran has returned with a failed
\* Logout, and the login lock is free.
C8_Witness ==
    \E t \in Threads :
        /\ th[t].entry = "WithLogin" /\ th[t].site = "done"
        /\ "body" \in Range(th[t].hist)
        /\ th[t].wrap = "failed to logout"
        /\ muLogin = NoOne

\* C9 (as claimed): when Login(u, p) has returned success, the device was
\* authenticated as u when it answered Login's last who-am-i query.
C9_LoginMeansAuthenticated ==
    \A t \in Threads :
        th[t].entry = "Login" /\ th[t].site = "done" /\ th[t].err = ErrNil
            => th[t].authAtQuery = th[t].username

\* C10: in the handshake, input ending with the invalid-credentials marker
\* fails Login with InvalidPassword if and only if the user name and the
\* password were both sent; otherwise the handshake goes on reading.
C10_InvalidPassword ==
    \A t \in Threads :
        th[t].site = "handshake" =>
            /\ th[t].ph = "loop" /\ HasSuffix(th[t].str, promptInvalidPassword)
                => ~(th[t].sentUsername /\ th[t].sentPassword)
            /\ th[t].ph = "ret" /\ HasSuffix(th[t].str, promptInvalidPassword)
               /\ th[t].sentUsername /\ th[t].sentPassword
                => th[t].err = ErrInvalidPassword
            /\ th[t].ph = "ret" /\ th[t].err = ErrInvalidPassword
                => /\ HasSuffix(th[t].str, promptInvalidPassword)
                   /\ th[t].sentUsername /\ th[t].sentPassword

\* C10 witness: a handshake that has sent only one credential reads on with
\* the marker at the end of its input.
C10_Witness ==
    \E t \in Threads :
        /\ th[t].site = "handshake" /\ th[t].ph = "loop"
        /\ HasSuffix(th[t].str, promptInvalidPassword)
        /\ th[t].sentUsername # th[t].sentPassword

\* C11: a Cached.Status call performs an underlying fetch exactly when the
\* clock of its own kind is stale, i.e. when the time of the call is at or
\* past the last fetch of that kind plus TTL; in particular the first call of
\* a kind always fetches.
C11_FetchIffStale ==
    call.made =>
        (call.fetched <=> call.at >= call.kindAt + cached.TTL)

\* C12: a successful cache fetch advances only the clock of its own kind: a
\* summary fetch leaves LastUpdateDetailed as it was and a detailed fetch
\* leaves LastUpdate as it was.
C12_OnlyMatchingClock ==
    (call.made /\ call.fetched /\ call.err = ErrNil) =>
        IF call.detailed THEN cached.LastUpdate = call.before.LastUpdate
        ELSE cached.LastUpdateDetailed = call.before.LastUpdateDetailed

\* C13: a successful summary Status from the cache returns a value with an
\* empty outlet list, and clearing it does not touch the stored snapshot: the
\* stored snapshot is the one the call was served from (the stored one as it
\* was before the call, or the one just fetched), outlet list included.
C13_SummaryClearsCopyOnly ==
    (call.made /\ ~call.detailed /\ call.err = ErrNil) =>
        /\ ~call.ret.nil
        /\ call.ret.outlets = <<>>
        /\ cached.LastStatus =
              IF call.fetched THEN call.fetchSts ELSE call.before.LastStatus
        /\ call.ret = [cached.LastStatus EXCEPT !.outlets = <<>>]

\* C13 witness: a summary call was served from a stored detailed snapshot,
\* whose outlet list is still there.
C13_Witness ==
    /\ call.made /\ ~call.detailed /\ ~call.fetched
    /\ call.ret.outlets = <<>>
    /\ cached.LastStatus.outlets # <<>>

\* C14: when the underlying fetch fails, Cached.Status returns the fetch's
\* error and no value, the stored snapshot and both clocks are as before the
\* call, and the clock of that kind is still stale.
C14_FailedFetchChangesNothing ==
    (call.made /\ call.fetched /\ call.fetchErr # ErrNil) =>
        /\ call.err = call.fetchErr
        /\ call.ret = NilStatus
        /\ cached = call.before
        /\ ~IsValid(cached, call.detailed, clock)

\* C14 witness: a fetch failed in a cache that holds a snapshot fetched
\* earlier.
C14_Witness ==
    /\ call.made /\ call.fetched /\ call.err = ErrTransport
    /\ ~cached.LastStatus.nil
    /\ cached.LastUpdate > TimeZero

\* A step of the reading caller (Status or Temperature of the PolledPDU).
ReaderStep == cl.rd'.pc # cl.rd.pc
ReaderReturned == cl.rd.pc = "done"

\* C15: Status and Temperature of the poller never call the wrapped PDU and
\* change nothing of the poller's state; they fail with NotPolledYet exactly
\* when no snapshot has been published at their nil check and serve the
\* stored snapshot otherwise; only the loop assigns the stored snapshot.
C15_Served ==
    /\ "reader" \notin cl.wrappedBy
    /\ cl.writers \subseteq {"loop"}
    /\ ReaderReturned =>
          IF cl.rd.err = ErrNil THEN lp.published /\ ~cl.rd.ret.nil
          ELSE /\ cl.rd.err = ErrNotPolledYet
               /\ cl.rd.ret = NilStatus
               /\ cl.rd.snapAtCall = "none"
C15_Step ==
    ReaderStep =>
        /\ UNCHANGED <<pp, lp, devVer, driverVars, cacheVars, fn>>
        /\ cl'.wrappedBy = cl.wrappedBy /\ cl'.writers = cl.writers
        /\ cl.rd.pc = "check" => (cl'.rd.err = ErrNotPolledYet <=> ~lp.published)
        /\ cl.rd.pc = "read" =>
              cl'.rd.ret = PolledResult(pp.lastStatus, cl.rd.op, cl.rd.detailed)
C15_ReadersOnlyRead == [](C15_Served) /\ [][C15_Step]_vars

\* C15 witness: a summary Status called before the first fetch has found the
\* snapshot at its nil check and has been served from it; the stored snapshot
\* has its outlet list.
C15_Witness ==
    /\ ReaderReturned /\ cl.rd.op = "Status" /\ ~cl.rd.detailed
    /\ cl.rd.err = ErrNil /\ cl.rd.snapAtCall = "none"
    /\ cl.rd.ret.outlets = <<>>
    /\ pp.lastStatus.outlets # <<>>

\* C16: a failed fetch leaves the stored snapshot unchanged: once a snapshot
\* has been published the stored snapshot is the one of the most recent
\* successful fetch, a read call made from then on never fails with
\* NotPolledYet, and what it returns is taken from that snapshot.
C16_Retained ==
    /\ lp.published => (~pp.lastStatus.nil /\ pp.lastStatus = lp.lastGood)
    /\ (ReaderReturned /\ cl.rd.snapAtCall # "none") =>
          (cl.rd.err = ErrNil /\ ~cl.rd.ret.nil)
C16_Step ==
    (ReaderStep /\ cl.rd.pc = "read") =>
        cl'.rd.ret = PolledResult(lp.lastGood, cl.rd.op, cl.rd.detailed)
C16_SnapshotSurvivesFailure == [](C16_Retained) /\ [][C16_Step]_vars

\* C16 witness: a detailed Status called after a failed fetch, with the
\* failure still the loop's last result, has returned the retained snapshot.
C16_Witness ==
    /\ ReaderReturned /\ cl.rd.snapAtCall = "retained"
    /\ cl.rd.op = "Status" /\ cl.rd.detailed
    /\ lp.failed
    /\ cl.rd.ret = lp.lastGood /\ ~cl.rd.ret.nil

\* C17: after a failed fetch the loop waits at least one poll interval before
\* its next fetch attempt: no fetch is running that was started after a
\* failure without a tick of the timer in between.
C17_BackoffAfterFailure ==
    ~(lp.pc = "fetching" /\ lp.failed /\ lp.sinceFail = 0)

\* C18: once Close has closed the stop channel the loop eventually exits, and
\* has logged out if it had logged in (a program that a second Close ended
\* in a panic aside).
C18_StopEndsLoop ==
    pp.stop ~> \/ lp.pc = "exited" /\ (lp.loggedIn => lp.loggedOut)
               \/ cl.panicked

\* C19: a mutating call never waits on the trigger channel: it is never at
\* its send with the channel holding TriggerCap triggers.
C19_TriggerNeverBlocks ==
    ~(cl.mt.pc = "send" /\ pp.trigger = TriggerCap)

\* C20: after a mutating call has returned success, the loop fetches anew
\* and the stored snapshot eventually is one fetched after the operation: it
\* shows the device at least as the call left it (a program that a second
\* Close ended in a panic aside).
MutatorReturnedOk == cl.mt.pc = "done" /\ cl.mt.err = ErrNil
FetchedSince(k) == ~pp.lastStatus.nil /\ pp.lastStatus.ver >= k
C20_RefreshAfterMutation ==
    \A k \in 1..MaxVer :
        (MutatorReturnedOk /\ devVer = k)
            ~> (FetchedSince(k) \/ cl.panicked)

\* C21: when the wrapped PDU supports authentication the loop calls Login
\* exactly once, before its first fetch, and never again; a loop whose Login
\* failed has exited without a fetch, and no snapshot is ever published.
C21_Lifecycle ==
    /\ lp.logins = IF pp.isLoginPDU /\ lp.pc # "login" THEN 1 ELSE 0
    /\ (pp.isLoginPDU /\ lp.pc \in {"fetch", "fetching", "callback", "select"})
          => lp.loggedIn
    /\ (pp.isLoginPDU /\ ~lp.loggedIn) =>
          /\ lp.pc \in {"login", "exited"}
          /\ ~lp.published /\ pp.lastStatus.nil
          /\ "loop" \notin cl.writers
C21_Step ==
    lp'.logins # lp.logins =>
        (lp.pc = "login" /\ ~lp.published /\ pp.lastStatus.nil)
C21_LoginOnce == [](C21_Lifecycle) /\ [][C21_Step]_vars

\* C21 witness: the Login failed, the loop has exited, and later calls
\* (a mutating call with its trigger, Close) found no snapshot published.
C21_Witness ==
    /\ pp.isLoginPDU /\ lp.logins = 1 /\ ~lp.loggedIn
    /\ lp.pc = "exited"
    /\ pp.stop /\ pp.trigger > 0
    /\ pp.lastStatus.nil

\* C22: a published snapshot is never mutated after publication: the stored
\* snapshot changes only by the loop publishing a new one, and a value that
\* Status has returned stays as it was returned whatever is written to the
\* stored snapshot or to the value handed to the status-changed callback.
C22_StoredKept ==
    pp'.lastStatus # pp.lastStatus => lp.pc = "fetching"
C22_ReturnedKept ==
    (ReaderReturned /\ cl'.rd.pc = "done") => cl'.rd.ret = cl.rd.ret
C22_PublishedImmutable == [][C22_StoredKept /\ C22_ReturnedKept]_vars

\* The decimal numerals: an optional minus sign and decimal digits, read in
\* base 10.
DecimalDigits == {"0", "1", "2", "9"}
IsNumeral(str) ==
    LET body == IF str # <<>> /\ Head(str) = "-" THEN Tail(str) ELSE str
    IN  body # <<>> /\ \A i \in 1..Len(body) : body[i] \in DecimalDigits
NumeralValue(str) ==
    IF Head(str) = "-" THEN 0 - DigitsValue(Tail(str), 10, 0)
    ELSE DigitsValue(str, 10, 0)

\* C23: SwitchOutlet, LockOutlet and RebootOutlet accept exactly "all" and the
\* numerals 1..20 (and then execute a command for that outlet); for any other
\* id they execute nothing and return an error in which the caller finds
\* InvalidOutletID if the id is a number, NotFound if it is not.
C23_OutletIds ==
    (fn.f = "outlet" /\ fn.done) =>
        IF fn.idStr = All THEN fn.err.nil /\ fn.cmd # <<>>
        ELSE IF IsNumeral(fn.idStr) /\ NumeralValue(fn.idStr) \in 1..NumOutlets
        THEN fn.err.nil /\ fn.cmd = OutletCommand(fn.op, fn.state,
                                                  NumeralValue(fn.idStr))
        ELSE /\ ~fn.err.nil
             /\ fn.cmd = <<>>
             /\ IF IsNumeral(fn.idStr) THEN ErrInvalidOutletID \in fn.err.is
                ELSE ErrNotFound \in fn.err.is

\* The required sections a report lacks, by the text the driver's Decode
\* error has for each.
MissingSections(r, detailed) ==
    {t \in {"total Kwh", "temp", "switches", "breakers", "groups", "outlets"} :
        \/ t = "total Kwh" /\ ~r.kwh
        \/ t = "temp" /\ ~r.temp
        \/ t = "switches" /\ ~r.switches
        \/ t = "breakers" /\ r.breakers = 0
        \/ t = "groups" /\ r.groups = 0
        \/ t = "outlets" /\ detailed /\ r.outlets = 0}

\* C24: Status on a report that lacks a required section fails with a Decode
\* error that names a section the report lacks (the only one, when just one
\* is missing).
C24_DecodeNamesSection ==
    (fn.f = "status" /\ fn.done
        /\ MissingSections(fn.report, fn.detailed) # {}) =>
        /\ ~fn.res.err.nil
        /\ ErrDecode \in fn.res.err.is
        /\ fn.res.err.text \in MissingSections(fn.report, fn.detailed)

\* C25: in a parsed report outlet row i (1..20) has id i and the breaker and
\* group of the fixed table, and groups 1, 2 belong to breaker 1, groups 3, 4
\* to breaker 2.
TableBreaker(i) == IF i <= 10 THEN 1 ELSE 2
TableGroup(i) ==
    IF i <= 5 THEN 1 ELSE IF i <= 10 THEN 2 ELSE IF i <= 15 THEN 3 ELSE 4
C25_Topology ==
    (fn.f = "status" /\ fn.done /\ fn.res.err.nil) =>
        /\ \A i \in 1..Len(fn.res.outlets) :
              i <= NumOutlets =>
                 /\ fn.res.outlets[i].id = i
                 /\ fn.res.outlets[i].breaker = TableBreaker(i)
                 /\ fn.res.outlets[i].group = TableGroup(i)
        /\ \A g \in 1..Len(fn.res.groups) :
              /\ fn.res.groups[g].id = g
              /\ fn.res.groups[g].breaker = (IF g <= 2 THEN 1 ELSE 2)
        /\ Len(fn.res.groups) = fn.report.groups
        /\ fn.detailed => Len(fn.res.outlets) = fn.report.outlets

\* C25 witness: a detailed report with all 20 outlet rows and 4 group rows
\* has been parsed.
C25_Witness ==
    /\ fn.f = "status" /\ fn.done /\ fn.detailed /\ fn.res.err.nil
    /\ Len(fn.res.outlets) = NumOutlets
    /\ Len(fn.res.groups) = 4
    /\ fn.res.outlets[16].group = 4 /\ fn.res.outlets[7].breaker = 1

\* Power in W, and the energy (in units of 1/2000 kWh) the trapezoid between
\* two powers dt hours apart adds: (p0 + p1)/2 * dt * 1e-3 kWh.
PowerOf(m) == m.TrueRMSCurrent * m.TrueRMSVoltage
Trapezoid(p0, p1, dt) == (p0 + p1) * dt

\* C26: after CalcEnergy every group and every outlet of the new snapshot has
\* energy = previous energy + (prevPower + newPower)/2 * hours * 1e-3, with
\* power = current * voltage: the previous total is carried forward.
C26_EnergyIntegral ==
    (fn.f = "energy" /\ fn.done) =>
        LET dt == fn.fetched.Timestamp - fn.prevSts.Timestamp
        IN  /\ \A i \in 1..Len(fn.fetched.Groups) :
                 fn.newSts.Groups[i].Energy =
                    fn.prevSts.Groups[i].Energy
                    + Trapezoid(PowerOf(fn.prevSts.Groups[i]),
                                PowerOf(fn.fetched.Groups[i]), dt)
            /\ \A i \in 1..Len(fn.fetched.Outlets) :
                 fn.newSts.Outlets[i].Energy =
                    fn.prevSts.Outlets[i].Energy
                    + Trapezoid(PowerOf(fn.prevSts.Outlets[i]),
                                PowerOf(fn.fetched.Outlets[i]), dt)
            /\ \A i \in 1..Len(fn.fetched.Groups) :
                 fn.newSts.Groups[i].Energy >= fn.prevSts.Groups[i].Energy

\* C26 witness: an outlet at 100 W, then at 200 W one hour later, starting
\* from energy 0, is at 0.15 kWh (300 units of 1/2000 kWh), next to a group
\* whose earlier total was carried forward.
C26_Witness ==
    /\ fn.f = "energy" /\ fn.done
    /\ fn.newSts.Timestamp - fn.prevSts.Timestamp = 1
    /\ PowerOf(fn.prevSts.Outlets[1]) = 100
    /\ PowerOf(fn.newSts.Outlets[1]) = 200
    /\ fn.prevSts.Outlets[1].Energy = 0
    /\ 20 * fn.newSts.Outlets[1].Energy = 3 * UnitsPerKWh
    /\ fn.prevSts.Groups[2].Energy > 0
    /\ fn.newSts.Groups[2].Energy > fn.prevSts.Groups[2].Energy

\* Some entry matching the caller's identity grants the requested pair.
Granted(acl, request) ==
    /\ request.cert # NoCert
    /\ \E i \in 1..Len(acl) :
         /\ Matches(acl[i].name, request.cert)
         /\ EntryGrants(acl[i], toKebabCase(request.operationID),
                        request.outlet)

\* C27: on the request path an operation is invoked only if some ACL entry
\* matching the caller's identity grants the requested (operation, outlet
\* id) pair; otherwise the request fails with access-denied and the
\* operation is not invoked.
C27_AllowOnly ==
    (fn.f = "request" /\ fn.done) =>
        /\ fn.result.invoked => Granted(fn.acl, fn.request)
        /\ ~Granted(fn.acl, fn.request) =>
              /\ fn.result.err = ErrAccessDenied
              /\ ~fn.result.invoked

\* The text the device prints for a command between the echo and the prompt.
OutputsOf(cmd) ==
    IF cmd = CmdTemp THEN {<<TempLine>>}
    ELSE IF cmd = CmdWhoami THEN {<<WhoamiLine[u]>> : u \in Users}
    ELSE {<<>>}

\* C28: the text execute(cmd) returns on success is the device's output for
\* cmd, also when a ready prompt was pending when the call started: it is
\* never empty because execute returned on the prompt that answers the blank
\* line, and never the output of an earlier command.
C28_ResultIsOutputOfCmd ==
    \A t \in Threads :
        (/\ th[t].ph = "ret"
         /\ th[t].site \in Sites \ {"handshake"}
         /\ th[t].cmd # CmdLogout
         /\ th[t].err = ErrNil)
        => th[t].res \in OutputsOf(th[t].cmd)

\* C29: with a device that answers every line, every WithLogin, Login and
\* device-operation call of concurrent callers eventually returns, and a
\* caller that has returned holds neither lock.
C29_Released ==
    \A t \in Threads : th[t].site = "done" => mu # t /\ muLogin # t

C29_EveryCallReturns ==
    /\ [](C29_Released)
    /\ \A t \in Threads : <>(th[t].site = "done")

\* A caller inside execute's communicate, or just returned from it.
ExecuteRuns(t) ==
    InExecute(t) /\ th[t].ph \in {"loop", "send", "sleep", "ret"}

\* C30: the writes of an execute call are the blank line and then the
\* command, in this order and each at most once; the command is written
\* exactly when sent is set, and a call that reports success has written it.
C30_Writes ==
    \A t \in Threads :
        ExecuteRuns(t) =>
            /\ th[t].wrote \in {<<>>, <<Blank>>, <<Blank, th[t].cmd>>}
            /\ th[t].sent <=> th[t].wrote = <<Blank, th[t].cmd>>
            /\ th[t].ph = "loop" => th[t].wrote # <<>>
            /\ th[t].ph = "send" =>
                  /\ th[t].wrote = <<Blank>>
                  /\ HasSuffix(th[t].str, promptReady)
            /\ th[t].ph = "sleep" => th[t].sent /\ th[t].cmd = CmdLogout
            /\ (th[t].ph = "ret" /\ th[t].err = ErrNil) => th[t].sent

\* C30, step by step: the command is written after a Read with whose text
\* the accumulated input ends with the ready prompt, and the accumulated
\* input is empty afterwards; success is reported by a Read after whose text
\* the input accumulated since that write ends with the ready prompt or, for
\* Logout, is the echo, after which the call sleeps and returns success.
C30_Step ==
    \A t \in Threads :
        (ExecuteRuns(t) /\ th'[t].site = th[t].site) =>
            /\ (th[t].ph = "loop" /\ th'[t].ph = "send") =>
                  /\ ~th[t].sent
                  /\ \E n \in 1..Len(rx) :
                       /\ th'[t].str = th[t].str \o SubSeq(rx, 1, n)
                       /\ rx' = SubSeq(rx, n + 1, Len(rx))
            /\ (~th[t].sent /\ th'[t].sent) =>
                  /\ th[t].ph = "send"
                  /\ HasSuffix(th[t].str, promptReady)
                  /\ th'[t].str = <<>>
                  /\ rx' = rx \o DeviceRespond(dev, th[t].cmd).out
            /\ (th[t].ph = "sleep" /\ th'[t].ph # "sleep") =>
                  /\ th'[t].ph = "ret" /\ th'[t].err = ErrNil
                  /\ th'[t].res = <<>>
                  /\ rx' = rx /\ dev' = dev
            /\ (th[t].ph = "loop" /\ th'[t].ph = "sleep") =>
                  th[t].cmd = CmdLogout
            /\ (/\ th[t].ph = "loop"
                /\ \/ th'[t].ph = "sleep"
                   \/ th'[t].ph = "ret" /\ th'[t].err = ErrNil) =>
                  /\ th[t].sent
                  /\ rx' # rx
                  /\ \E n \in 1..Len(rx) :
                       /\ rx' = SubSeq(rx, n + 1, Len(rx))
                       /\ IF th[t].cmd = CmdLogout
                          THEN th[t].str \o SubSeq(rx, 1, n) = CmdLogout
                          ELSE HasSuffix(th[t].str \o SubSeq(rx, 1, n),
                                         promptReady)

C30_WriteOrder == [](C30_Writes) /\ [][C30_Step]_vars

\* C30 witness: after a read timed out, a device operation has written the
\* blank line and then its command, once each, and returned the output read
\* after the command.
C30_Witness ==
    \E t \in Threads :
        /\ th[t].site = "op" /\ th[t].ph = "ret" /\ th[t].err = ErrNil
        /\ th[t].wrote = <<Blank, CmdTemp>>
        /\ th[t].res = <<TempLine>>
        /\ timeouts > 0

\* The calls of communicate a Login has made so far.
LoginSites(t) == SelectSeq(th[t].hist, LAMBDA x : x \notin {"body", "wl_logout"})

\* C31: a Login whose first who-am-i found the requested user has made no
\* other call (no Logout, no handshake, hence no credential written); one
\* that found a different user called Logout next, and reaches the handshake
\* only behind that Logout.
C31_QueryFirst ==
    \A t \in Threads :
        (th[t].entry \in {"Login", "WithLogin"} /\ th[t].hist # <<>>) =>
            /\ th[t].hist[1] = "whoami1"
            /\ (th[t].site = "whoami1" /\ th[t].ph = "ret"
                /\ th[t].err = ErrNil /\ FindWhoami(th[t].res) # NoOne) =>
                  FindWhoami(th[t].res) = th[t].authAtQuery
            /\ ("whoami2" \notin Range(th[t].hist) /\ th[t].user = th[t].username
                /\ th[t].user # NoOne) =>
                  /\ LoginSites(t) = <<"whoami1">>
                  /\ (th[t].entry = "Login" /\ th[t].site = "done") =>
                        th[t].err = ErrNil
            /\ ("whoami2" \notin Range(th[t].hist) /\ th[t].user # th[t].username
                /\ th[t].user # NoOne) =>
                  /\ Len(th[t].hist) >= 2
                  /\ th[t].hist[2] = "relogout"
                  /\ th[t].site = "handshake" =>
                        LoginSites(t) = <<"whoami1", "relogout", "handshake">>

\* C31, step by step: the Logout of a different user is followed by the
\* handshake exactly when it succeeded; when it failed Login fails with its
\* error without a handshake; and no credential is written outside the
\* handshake.
C31_Step ==
    \A t \in Threads :
        /\ (th[t].site = "relogout" /\ th'[t].site # "relogout") =>
              IF th[t].err = ErrNil
              THEN th'[t].site = "handshake" /\ th'[t].wrote = <<>>
              ELSE /\ th'[t].site = "done"
                   /\ th'[t].err = th[t].err
                   /\ "handshake" \notin Range(th'[t].hist)
        /\ (th'[t].sentUsername /\ ~th[t].sentUsername) =>
              th[t].site = "handshake"

C31_LoginQueriesFirst == [](C31_QueryFirst) /\ [][C31_Step]_vars

\* C31 witness: a Login for one user found the other user authenticated, its
\* Logout has completed and it has written its user name; the other caller's
\* Login returned at once because its user was already authenticated.
C31_Witness ==
    \E t, u \in Threads :
        /\ th[t].entry = "Login" /\ th[t].site = "handshake"
        /\ th[t].hist = <<"whoami1", "relogout", "handshake">>
        /\ th[t].sentUsername
        /\ th[u].entry = "Login" /\ th[u].site = "done"
        /\ th[u].hist = <<"whoami1">> /\ th[u].err = ErrNil

\* C32: Logout terminates on a device that echoes the command, ends the line
\* and shows the login screen: an execute of Logout that has read all of the
\* device's answer to the command has returned; it is not still reading, with
\* the command lock held, for text that will not come.
C32_LogoutTerminates ==
    \A t \in Threads :
        ~(/\ InExecute(t) /\ LogoutSent(t)
          /\ th[t].ph = "loop" /\ mu = t
          /\ rx = <<>>
          /\ HasPrefix(th[t].str, CmdLogout))

\* C33: a detailed Status is atomic with respect to other callers: the
\* device executes no other caller's command between its Status and its
\* Ostatus, so outlet 1 is in the same state when the two commands arrive.
C33_StatusAtomic ==
    \A t \in Threads :
        (th[t].entry = "StatusDetailed" /\ Len(th[t].seen) = 2) =>
            th[t].seen[1] = th[t].seen[2]

\* C39: a summary Status makes one execute, of Status, and never one of
\* Ostatus; a detailed Status makes the execute of Status and then, when that
\* succeeded and was decoded, the one of Ostatus; a Status that returns
\* success has written each of its commands once and decoded each report.
C39_Commands ==
    \A t \in Threads :
        th[t].entry \in {"Status", "StatusDetailed"} =>
            /\ th[t].hist \in {<<"status">>, <<"status", "ostatus">>}
            /\ th[t].entry = "Status" => th[t].hist = <<"status">>
            /\ Len(th[t].seen) <= Len(th[t].hist)
            /\ (th[t].site = "status" /\ th[t].sent) =>
                  th[t].wrote = <<Blank, CmdStatus>>
            /\ (th[t].site = "ostatus" /\ th[t].sent) =>
                  th[t].wrote = <<Blank, CmdOstatus>>
            /\ (th[t].site = "done" /\ th[t].err = ErrNil) =>
                  /\ Len(th[t].seen) = Len(th[t].hist)
                  /\ th[t].entry = "StatusDetailed" =>
                        /\ th[t].hist = <<"status", "ostatus">>
                        /\ dev.rep = "ok"
                  /\ th[t].entry = "Status" => dev.rep # "no groups"

\* C39, step by step: when execute("Status") or execute("Ostatus") has
\* failed, or its report cannot be decoded, Status returns that error and
\* makes no further call.
C39_Step ==
    \A t \in Threads :
        (/\ th[t].entry \in {"Status", "StatusDetailed"}
         /\ th[t].site \in {"status", "ostatus"}
         /\ th'[t].site # th[t].site) =>
            IF th[t].err # ErrNil
            THEN th'[t].site = "done" /\ th'[t].err = th[t].err
            ELSE IF \/ th[t].site = "status" /\ dev.rep = "no groups"
                    \/ th[t].site = "ostatus" /\ dev.rep = "no outlets"
            THEN th'[t].site = "done" /\ th'[t].err = ErrDecode
            ELSE th'[t].err = ErrNil

C39_StatusCommands == [](C39_Commands) /\ [][C39_Step]_vars

\* C39 witness: a detailed Status has returned its snapshot after Status
\* and Ostatus, next to one that failed because the session was logged out
\* or a report could not be decoded.
C39_Witness ==
    /\ th["t1"].entry = "StatusDetailed" /\ th["t1"].site = "done"
    /\ th["t1"].err = ErrNil
    /\ th["t1"].hist = <<"status", "ostatus">> /\ Len(th["t1"].seen) = 2
    /\ th["t2"].entry = "StatusDetailed" /\ th["t2"].site = "done"

\* C34: whenever the detailed clock is fresh the stored snapshot has an outlet
\* list, i.e. it came from a detailed fetch, and a detailed Status served
\* without a fetch returns a snapshot with an outlet list.
C34_FreshDetailedHasOutlets ==
    /\ IsValid(cached, TRUE, clock) =>
            (~cached.LastStatus.nil /\ cached.LastStatus.outlets # <<>>)
    /\ (call.made /\ call.detailed /\ ~call.fetched /\ call.err = ErrNil) =>
            call.ret.outlets # <<>>

\* C35: two Status calls on one cache that found the clock of their kind
\* stale in the same staleness window do not both fetch, and every call that
\* returned without an error returned a complete snapshot (non-nil, with an
\* outlet list if detailed).
C35_OneFetchPerWindow ==
    /\ \A a, b \in Callers :
          (/\ a # b
           /\ fn.cs[a].fetched /\ fn.cs[b].fetched
           /\ fn.cs[a].detailed = fn.cs[b].detailed)
              => fn.cs[a].window # fn.cs[b].window
    /\ \A c \in Callers :
          (fn.cs[c].pc = "done" /\ fn.cs[c].err = ErrNil)
              => /\ ~fn.cs[c].ret.nil
                 /\ fn.cs[c].detailed => fn.cs[c].ret.outlets # <<>>

\* C36: a mutating operation called through the cache reaches the wrapped PDU
\* and leaves the stored snapshot and both clocks as they were; a Status
\* call made while the clock of its kind is fresh performs no fetch and
\* returns the snapshot stored before it, the one from before the mutation
\* if nothing was fetched since.
C36_MutatorStep ==
    fn' # fn =>
        /\ cached' = cached /\ clock' = clock
        /\ fn'.cached = cached
C36_StatusStep ==
    (call' # call /\ IsValid(cached, call'.detailed, clock)) =>
        /\ ~call'.fetched
        /\ cached' = cached
        /\ call'.ret = Serve(cached.LastStatus, call'.detailed).ret
        /\ (fn.f = "forwarded" /\ cached = fn.cached) =>
               call'.ret.ver = fn.cached.LastStatus.ver
C36_ForwardedAroundCache == [][C36_MutatorStep /\ C36_StatusStep]_vars

\* C36 witness: an outlet operation succeeded on a cache holding a snapshot
\* and the Status call after it was served, without a fetch, the snapshot
\* from before the operation, which the device has since left behind.
C36_Witness ==
    /\ fn.f = "forwarded" /\ fn.err = ErrNil
    /\ call.made /\ call.at > fn.at /\ ~call.fetched
    /\ call.before = fn.cached /\ cached = fn.cached
    /\ ~call.ret.nil /\ call.ret.ver < devVer

\* C37: the trigger channel receives a value only from a mutating call whose
\* operation on the wrapped PDU has returned without an error, one value for
\* the call, which then returns nil; a call whose operation failed returns
\* that error at once and the trigger channel is as it was.
C37_Step ==
    /\ pp'.trigger > pp.trigger =>
           /\ cl.mt = [pc |-> "send", err |-> ErrNil]
           /\ cl'.mt = [pc |-> "done", err |-> ErrNil]
           /\ pp'.trigger = pp.trigger + 1
    /\ (cl'.mt # cl.mt /\ cl.mt.pc \in {"idle", "done"}) =>
           /\ pp' = pp
           /\ cl'.mt \in {[pc |-> "send", err |-> ErrNil],
                           [pc |-> "done", err |-> ErrOperation]}
    /\ (cl'.mt # cl.mt /\ cl.mt.pc = "send") => pp'.trigger > pp.trigger
C37_TriggerAfterSuccess ==
    [](cl.mt.pc = "send" => cl.mt.err = ErrNil) /\ [][C37_Step]_vars

\* C37 witness: a mutating call has failed and returned the error while the
\* trigger of an earlier, successful call is still queued.
C37_Witness ==
    /\ cl.mt = [pc |-> "done", err |-> ErrOperation]
    /\ pp.trigger > 0
    /\ "mutator" \in cl.wrappedBy

\* C38: a successful fetch of the loop assigns the fetched Status to
\* lastStatus and only then is the callback, if one was given, called, once
\* and with that Status; a failed fetch calls no callback, and without a
\* callback none is called.
C38_Called ==
    /\ lp.pc = "callback" =>
           /\ ~lp.failed /\ lp.invoked = 0
           /\ ~pp.lastStatus.nil /\ pp.lastStatus = lp.lastGood
    /\ lp.pc # "callback" =>
           lp.invoked = IF lp.published /\ pp.onStatus THEN 1 ELSE 0
    /\ lp.invoked > 0 => lp.cbArg = [lp.lastGood EXCEPT !.energy = FALSE]
C38_Step ==
    /\ (lp.pc = "fetching" /\ lp'.pc = "callback") =>
           pp'.lastStatus = StatusOf(lp.inVer, TRUE)
    /\ (lp.pc = "fetching" /\ lp'.pc \notin {"fetching", "callback"}) =>
           (lp'.pc = "fetch" /\ lp'.failed /\ lp'.invoked = lp.invoked
            /\ pp'.lastStatus = pp.lastStatus)
    /\ lp'.invoked > lp.invoked =>
           (lp.pc = "callback" /\ lp'.cbArg = pp.lastStatus)
C38_CallbackOncePerFetch == []C38_Called /\ [][C38_Step]_vars

\* C38 witness: the callback has been called for the snapshot of a later
\* fetch than the first, and a fetch has failed since.
C38_Witness ==
    /\ pp.onStatus /\ lp.invoked = 1 /\ lp.failed
    /\ lp.cbArg.ver > 0
    /\ lp.pc = "fetch"

\* C40: the handler wrapped by the login middleware returns what the handler
\* inside it returned, response and error, whenever the WithLogin bracket
\* succeeded (or there is no LoginPDU), and the error of WithLogin when the
\* bracket failed.
C40_OutcomeUnchanged ==
    (fn.f = "mwLogin" /\ fn.done) =>
        IF IsLoginPDU(fn.pdu) /\ fn.bracket # "ok"
        THEN fn.result.err = WithLoginError(fn.bracket)
        ELSE fn.result = fn.handler
====
